---- MODULE Spec2Model ----
(***************************************************************************)
(* A model of pyJacqQ (src/jacqq.py): the entity / point / time-slice data *)
(* model, the observed Q statistics, the Monte Carlo reference engine with *)
(* its two shuffle strategies, the p-values and the dependent FDR          *)
(* correction.                                                             *)
(*                                                                         *)
(* Conventions.                                                            *)
(*  - Python objects are records; a list is a sequence; an object          *)
(*    reference is the index of the object in the sequence that holds it   *)
(*    (points[p], focus_points[f], study_entities[e]).  A dict is the      *)
(*    sequence of its values in insertion order, each carrying its key in  *)
(*    the field identity.                                                  *)
(*  - None is the string "None".                                           *)
(*  - A real number (p-value, alpha) is an exact fraction <<num, den>>     *)
(*    with den > 0; comparisons cross-multiply.  Rounding of the binary    *)
(*    floating point arithmetic is not modelled.                           *)
(*  - A date is the integer YYYYMMDD, as in the input files.               *)
(***************************************************************************)
EXTENDS Integers, Sequences, FiniteSets, TLC

VARIABLES
    pc,              \* position in run_analysis, or the unit harness position
    args,            \* the arguments of run_analysis
    tables,          \* the loaded input tables (details, histories, focus)
    seed,            \* the local variable seed of run_analysis
    rng_seed,        \* the value random.seed() was last called with
    study_entities,  \* dict of _StudyEntity
    focus_entities,  \* dict of _FocusEntity, or None
    points,          \* every _StudyPoint created so far
    focus_points,    \* every _FocusPoint created so far
    time_slices,     \* list of _TimeSlice
    global_Q,        \* _StudyStatistic of the global Q
    global_Qf,       \* _StudyStatistic of the global Qf
    shuffle,         \* number of shuffle trials completed
    trial,           \* reference values of the trial just completed
    correct_alpha,   \* adjusted alpha
    results,         \* the QStudyResults object
    raised,          \* the exception that ended the last call, or None
    p_values,        \* the list handed to _fdr_correction_dependent
    ret              \* the value returned by the last unit call

vars == <<pc, args, tables, seed, rng_seed, study_entities, focus_entities,
          points, focus_points, time_slices, global_Q, global_Qf, shuffle,
          trial, correct_alpha, results, raised, p_values, ret>>

None == "None"

\* value is None, for a value of any type
IsNone(value) == ToString(value) = ToString(None)

-----------------------------------------------------------------------------
(* Bounds of the model *)

\* study entities of a unit-level shuffle call: 0 .. NumEntities
NumEntities == 3
\* case_weight is w / MaxWeight for w in 0 .. MaxWeight
MaxWeight == 2
\* shuffle trials of a run
NumShuffles == 2
\* observed statistics of the points of the entity harness: 0 .. MaxStat
MaxStat == 2
\* requested numbers of neighbours of a run: 0 .. MaxK
MaxK == 2
\* random.randint(0, 2**32-1) draws from 0 .. MaxSeed, and a supplied
\* seed is one of 0 .. MaxSeed
MaxSeed == 1
\* points of each entity of a unit-level fixture
PointsPerEntity == 2
\* length of the p-value pool of a unit-level FDR call: 0 .. MaxPool
MaxPool == 3
\* p-values of a unit-level FDR call are i / PGrid for i in 0 .. PGrid
PGrid == 10

-----------------------------------------------------------------------------
(* Generic helpers *)

RECURSIVE SumSeq(_)
SumSeq(s) == IF s = <<>> THEN 0 ELSE Head(s) + SumSeq(Tail(s))

\* list.remove(x): drops the first element equal to x
RECURSIVE RemoveFirst(_, _)
RemoveFirst(s, x) ==
    IF s = <<>> THEN <<>>
    ELSE IF Head(s) = x THEN Tail(s)
    ELSE <<Head(s)>> \o RemoveFirst(Tail(s), x)

Range(s) == {s[i] : i \in DOMAIN s}

\* sum([bool ...]): True counts 1
BoolInt(b) == IF b THEN 1 ELSE 0

-----------------------------------------------------------------------------
(* _StudyStatistic *)

StudyStatistic == [statistic |-> None, p_value |-> None, shuffles_passed |-> 0]

\* the proportion of passed trials, without the +1 of numerator and denominator
PValueWithoutPlusOne(stat, total_shuffles) ==
    [stat EXCEPT !.p_value = <<stat.shuffles_passed, total_shuffles>>]

\* calculate_p_value: (shuffles_passed + 1) / (total_shuffles + 1.0)
calculate_p_value(stat, total_shuffles) ==
    [stat EXCEPT !.p_value = <<stat.shuffles_passed + 1, total_shuffles + 1>>]

-----------------------------------------------------------------------------
(* Exact fractions standing for Python floats *)

Frac(n, d) == <<n, d>>

RECURSIVE Gcd(_, _)
Gcd(a, b) == IF b = 0 THEN a ELSE Gcd(b, a % b)

\* the same fraction in lowest terms
Lowest(f) == LET g == Gcd(f[1], f[2]) IN IF g = 0 THEN f ELSE <<f[1] \div g, f[2] \div g>>

Leq(a, b) == a[1] * b[2] <= b[1] * a[2]
Less(a, b) == a[1] * b[2] < b[1] * a[2]

-----------------------------------------------------------------------------
(* _StudyEntity, _FocusEntity, _StudyPoint, _FocusPoint, _TimeSlice        *)

\* _BaseQEntity.__init__ + _StudyEntity.__init__
StudyEntity(identity, is_case, date_of_initial_exposure, date_contraction, case_weight) ==
    [identity |-> identity, entity_stat |-> StudyStatistic, points |-> <<>>,
     is_case |-> is_case, date_of_contraction |-> date_contraction,
     date_of_initial_exposure |-> date_of_initial_exposure,
     case_weight |-> case_weight]

\* _BaseQEntity.__init__ + _FocusEntity.__init__
FocusEntity(identity) ==
    [identity |-> identity, entity_stat |-> StudyStatistic, points |-> <<>>]

\* _BaseQPoint.__init__ + _StudyPoint.__init__ (the append to owner.points is
\* done by the operator that creates the point: AddStudyPoint)
StudyPoint(x, y, owner, owner_is_case) ==
    [point_stat |-> StudyStatistic, x |-> x, y |-> y, owner |-> owner,
     neighbors |-> <<>>, reference_stat |-> 0,
     temp_case_status |-> owner_is_case, owner_is_case |-> owner_is_case,
     exposed |-> TRUE]

\* _BaseQPoint.__init__ + _FocusPoint.__init__
FocusPoint(x, y, owner) ==
    [point_stat |-> StudyStatistic, x |-> x, y |-> y, owner |-> owner,
     neighbors |-> <<>>, reference_stat |-> 0, neighbor_distances |-> <<>>]

\* _TimeSlice.__init__
TimeSlice(date_of_slice) ==
    [Qt |-> StudyStatistic, date |-> date_of_slice, points |-> <<>>,
     focus_points |-> <<>>, delta |-> None, end_date |-> None]

\* a relabelling that reaches only the first point of the entity
SetFirstPointOnly(pts, entity, case_status) ==
    [p \in DOMAIN pts |->
        IF entity.points # <<>> /\ p = entity.points[1]
        THEN [pts[p] EXCEPT !.temp_case_status = case_status]
        ELSE pts[p]]

\* a relabelling that overwrites the case status of the owner too
SetOwnerStatusToo(pts, entity, case_status) ==
    [p \in DOMAIN pts |->
        IF p \in Range(entity.points)
        THEN [pts[p] EXCEPT !.temp_case_status = case_status,
                            !.owner_is_case = case_status]
        ELSE pts[p]]

\* _StudyEntity.set_temp_case_status_of_points, on the point store pts
set_temp_case_status_of_points(pts, entity, case_status) ==
    [p \in DOMAIN pts |->
        IF p \in Range(entity.points)
        THEN [pts[p] EXCEPT !.temp_case_status = case_status]
        ELSE pts[p]]

RECURSIVE SetControls(_, _, _)
\* for control in remaining_entities: control.set_temp_case_status_of_points(False)
SetControls(pts, ents, remaining) ==
    IF remaining = <<>> THEN pts
    ELSE SetControls(set_temp_case_status_of_points(pts, ents[Head(remaining)], FALSE),
                     ents, Tail(remaining))

-----------------------------------------------------------------------------
(* The two shuffle strategies.  A call's outcome is a record                *)
(* [points, raised]; the operators return the set of outcomes the random    *)
(* draws of the call can produce.                                           *)

\* len([entity for entity in study_entities.values() if entity.is_case])
remaining_case_flags(ents) == Cardinality({e \in DOMAIN ents : ents[e].is_case})

\* list(study_entities.values()), as references
EntityList(ents) == [i \in 1..Len(ents) |-> i]

\* random.choice(seq): any element
random_choice(seq) == Range(seq)

RECURSIVE equal_risk_loop(_, _, _, _)
equal_risk_loop(ents, remaining, flags, pts) ==
    IF flags > 0
    THEN UNION { equal_risk_loop(ents, RemoveFirst(remaining, random_entity), flags - 1,
                                 set_temp_case_status_of_points(pts, ents[random_entity], TRUE))
                 : random_entity \in random_choice(remaining) }
    ELSE { [points |-> SetControls(pts, ents, remaining), raised |-> None] }

equal_risk_shuffle(ents, pts) ==
    IF Len(ents) = 0
    THEN { [points |-> pts, raised |-> "ValueError"] }
    ELSE equal_risk_loop(ents, EntityList(ents), remaining_case_flags(ents), pts)

\* list.sort(key=lambda entity: entity.case_weight): stable insertion
RECURSIVE InsertByWeight(_, _, _)
InsertByWeight(ents, sorted, e) ==
    IF sorted = <<>> THEN <<e>>
    ELSE IF ents[e].case_weight < ents[Head(sorted)].case_weight
         THEN <<e>> \o sorted
         ELSE <<Head(sorted)>> \o InsertByWeight(ents, Tail(sorted), e)

RECURSIVE SortByWeight(_, _)
SortByWeight(ents, list) ==
    IF list = <<>> THEN <<>>
    ELSE InsertByWeight(ents, SortByWeight(ents, SubSeq(list, 1, Len(list) - 1)),
                        list[Len(list)])

\* sum([entity.case_weight for entity in remaining_entities])
weights_total(ents, remaining) ==
    SumSeq([i \in 1..Len(remaining) |-> ents[remaining[i]].case_weight])

\* entity_intervals[remaining[i]]: contiguous intervals sized by the
\* normalized weights, the last one ending at 1
entity_interval(ents, remaining, i) ==
    LET total == weights_total(ents, remaining)
        lower == SumSeq([j \in 1..(i - 1) |-> ents[remaining[j]].case_weight])
        upper == lower + ents[remaining[i]].case_weight
    IN  <<Frac(lower, total),
          IF i = Len(remaining) THEN Frac(1, 1) ELSE Frac(upper, total)>>

\* random.random(): a value of [0, 1).  The grid of step 1 / (2 * total)
\* holds every interval bound below 1 and a value strictly inside every
\* interval of positive width.
random_random(ents, remaining) ==
    LET total == weights_total(ents, remaining)
    IN  { Frac(s, 2 * total) : s \in 0..(2 * total - 1) }

\* the first entity of the list whose closed interval contains selection
selected_entity(ents, remaining, selection) ==
    LET hits == { i \in 1..Len(remaining) :
                    /\ Leq(entity_interval(ents, remaining, i)[1], selection)
                    /\ Leq(selection, entity_interval(ents, remaining, i)[2]) }
    IN  remaining[CHOOSE i \in hits : \A j \in hits : i <= j]

RECURSIVE case_weight_loop(_, _, _, _)
case_weight_loop(ents, remaining, flags, pts) ==
    IF flags > 0
    THEN IF weights_total(ents, remaining) = 0
         THEN { [points |-> pts, raised |-> "ZeroDivisionError"] }
         ELSE UNION { case_weight_loop(ents, RemoveFirst(remaining, entity), flags - 1,
                                       set_temp_case_status_of_points(pts, ents[entity], TRUE))
                      : entity \in { selected_entity(ents, remaining, selection)
                                     : selection \in random_random(ents, remaining) } }
    ELSE { [points |-> SetControls(pts, ents, remaining), raised |-> None] }

case_weight_shuffle(ents, pts) ==
    IF Len(ents) = 0
    THEN { [points |-> pts, raised |-> "ValueError"] }
    ELSE case_weight_loop(ents, SortByWeight(ents, EntityList(ents)),
                          remaining_case_flags(ents), pts)

\* _shuffle_flags
shuffle_flags(ents, pts, use_case_weights) ==
    IF ~use_case_weights THEN equal_risk_shuffle(ents, pts)
    ELSE case_weight_shuffle(ents, pts)

-----------------------------------------------------------------------------
(* Dates: datetime.datetime.strptime(str(date), "%Y%m%d"), differences in  *)
(* days, and strftime("%Y%m%d") back to the integer                        *)

IsLeapYear(y) == (y % 4 = 0) /\ ((y % 100 # 0) \/ (y % 400 = 0))

DaysInMonth(y, m) ==
    IF m = 2 THEN (IF IsLeapYear(y) THEN 29 ELSE 28)
    ELSE IF m \in {4, 6, 9, 11} THEN 30 ELSE 31

\* the proleptic Gregorian ordinal of the date YYYYMMDD
Ordinal(date) ==
    LET y == date \div 10000
        m == (date \div 100) % 100
        d == date % 100
    IN  (y - 1) * 365 + ((y - 1) \div 4) - ((y - 1) \div 100) + ((y - 1) \div 400)
        + SumSeq([j \in 1..(m - 1) |-> DaysInMonth(y, j)]) + d

\* the dates of the years the model's inputs lie in
Calendar ==
    { y * 10000 + m * 100 + d : y \in {2015}, m \in 1..12, d \in 1..31 }

\* int(date.strftime("%Y%m%d")) of the date with ordinal n
DateOfOrdinal(n) ==
    CHOOSE date \in Calendar :
        /\ (date % 100) <= DaysInMonth(date \div 10000, (date \div 100) % 100)
        /\ Ordinal(date) = n

\* (next_date - present_date).days
DaysBetween(present_date, next_date) == Ordinal(next_date) - Ordinal(present_date)

-----------------------------------------------------------------------------
(* Loading: _extract_study_entities, _extract_focus_entities,              *)
(* _extract_unique_dates, _create_time_slices_from_series                  *)

\* entity_id in entities / entities[entity_id]: the reference, 0 when absent
EntityIndex(ents, identity) ==
    IF \E e \in DOMAIN ents : ents[e].identity = identity
    THEN CHOOSE e \in DOMAIN ents : ents[e].identity = identity
    ELSE 0

\* str.lower on the spellings of the is_case column
Lower(text) ==
    CASE text = "True" -> "true"
      [] text = "FALSE" -> "false"
      [] OTHER -> text

\* 1 if row[...].lower() not in ('false', '0', 'no') else 0
parse_is_case(text) == Lower(text) \notin {"false", "0", "no"}

\* one row of the details table
extract_study_entity(row, exposure, weights) ==
    LET date_of_diagnosis == Ordinal(row.DOD)
        date_of_contraction == DateOfOrdinal(date_of_diagnosis - row.latency)
        date_first_exposure ==
            DateOfOrdinal(date_of_diagnosis - (row.latency + row.exposure_duration))
    IN  StudyEntity(row.ID, parse_is_case(row.is_case),
                    IF exposure THEN date_first_exposure ELSE None,
                    IF exposure THEN date_of_contraction ELSE None,
                    IF weights THEN row.weight ELSE None)

\* (the details table holds each ID once)
extract_study_entities(data_rows, exposure, weights) ==
    [i \in 1..Len(data_rows) |-> extract_study_entity(data_rows[i], exposure, weights)]

RECURSIVE extract_focus_entities(_)
extract_focus_entities(focus_data) ==
    IF focus_data = <<>> THEN <<>>
    ELSE LET before == extract_focus_entities(SubSeq(focus_data, 1, Len(focus_data) - 1))
             identity == focus_data[Len(focus_data)].ID
         IN  IF EntityIndex(before, identity) = 0
             THEN Append(before, FocusEntity(identity))
             ELSE before

extract_unique_dates(entities, point_histories, focus_data, exposure) ==
    UNION { LET row == point_histories[i]
                e == EntityIndex(entities, row.ID)
            IN  IF e = 0 THEN {}
                ELSE {row.start_date, row.end_date}
                     \cup (IF exposure
                           THEN {entities[e].date_of_initial_exposure,
                                 entities[e].date_of_contraction}
                           ELSE {})
            : i \in DOMAIN point_histories }
    \cup (IF IsNone(focus_data) THEN {}
          ELSE UNION { {focus_data[i].start_date, focus_data[i].end_date}
                       : i \in DOMAIN focus_data })

\* slots of the hash table of a small CPython set
HashTableSize == 8

\* for selected_date in unique_dates: the iteration order of a set of ints
\* is the order of their hash slots (value modulo the table size), which is
\* not the ascending order
RECURSIVE SetIterationOrder(_)
SetIterationOrder(S) ==
    IF S = {} THEN <<>>
    ELSE LET first == CHOOSE d \in S : \A o \in S :
                          \/ d % HashTableSize < o % HashTableSize
                          \/ (d % HashTableSize = o % HashTableSize /\ d <= o)
         IN  <<first>> \o SetIterationOrder(S \ {first})

\* an interval that includes its end date
in_closed_interval(row, date) == row.start_date <= date /\ date <= row.end_date

\* start_date <= time_slice.date < end_date
in_interval(row, date) == row.start_date <= date /\ date < row.end_date

\* the object store a run builds: [ents, fents, pts, fpts]
RECURSIVE collect_series_data_into_time_slice(_, _, _, _)
collect_series_data_into_time_slice(st, time_slice, point_histories, exposure) ==
    IF point_histories = <<>> THEN [st |-> st, time_slice |-> time_slice]
    ELSE LET row == Head(point_histories)
             e == EntityIndex(st.ents, row.ID)
         IN  IF e # 0 /\ in_interval(row, time_slice.date)
             THEN LET entity == st.ents[e]
                      p == Len(st.pts) + 1
                      unexposed ==
                          exposure /\ (\/ time_slice.date < entity.date_of_initial_exposure
                                       \/ time_slice.date >= entity.date_of_contraction)
                      point == [StudyPoint(row.x, row.y, e, entity.is_case)
                                    EXCEPT !.exposed = ~unexposed]
                  IN  collect_series_data_into_time_slice(
                          [st EXCEPT !.ents[e].points = Append(@, p),
                                     !.pts = Append(@, point)],
                          [time_slice EXCEPT !.points = Append(@, p)],
                          Tail(point_histories), exposure)
             ELSE collect_series_data_into_time_slice(st, time_slice,
                                                      Tail(point_histories), exposure)

RECURSIVE collect_series_focus_data_into_time_slice(_, _, _)
collect_series_focus_data_into_time_slice(st, time_slice, focus_histories) ==
    IF focus_histories = <<>> THEN [st |-> st, time_slice |-> time_slice]
    ELSE LET row == Head(focus_histories)
             e == EntityIndex(st.fents, row.ID)
         IN  IF e # 0 /\ in_interval(row, time_slice.date)
             THEN LET f == Len(st.fpts) + 1
                  IN  collect_series_focus_data_into_time_slice(
                          [st EXCEPT !.fents[e].points = Append(@, f),
                                     !.fpts = Append(@, FocusPoint(row.x, row.y, e))],
                          [time_slice EXCEPT !.focus_points = Append(@, f)],
                          Tail(focus_histories))
             ELSE collect_series_focus_data_into_time_slice(st, time_slice,
                                                            Tail(focus_histories))

\* the loop over the dates; returns [st, time_slices]
RECURSIVE create_time_slices_from_series(_, _, _, _, _, _)
create_time_slices_from_series(dates, st, slices, point_histories, focus_histories, exposure) ==
    IF dates = <<>> THEN [st |-> st, time_slices |-> slices]
    ELSE LET study == collect_series_data_into_time_slice(
                          st, TimeSlice(Head(dates)), point_histories, exposure)
             both == IF ~IsNone(st.fents) /\ st.fents # <<>> /\ focus_histories # <<>>
                     THEN collect_series_focus_data_into_time_slice(
                              study.st, study.time_slice, focus_histories)
                     ELSE study
         IN  create_time_slices_from_series(Tail(dates), both.st,
                                            Append(slices, both.time_slice),
                                            point_histories, focus_histories, exposure)

-----------------------------------------------------------------------------
(* _sort_time_slices, _find_time_slice_deltas, _remove_empty_time_slices   *)

RECURSIVE InsertByDate(_, _)
InsertByDate(sorted, time_slice) ==
    IF sorted = <<>> THEN <<time_slice>>
    ELSE IF time_slice.date < Head(sorted).date THEN <<time_slice>> \o sorted
    ELSE <<Head(sorted)>> \o InsertByDate(Tail(sorted), time_slice)

\* the slices left in the order of their creation
LeaveUnsorted(slices) == slices

\* time_slices.sort(key=lambda time_slice: time_slice.date)
RECURSIVE sort_time_slices(_)
sort_time_slices(slices) ==
    IF slices = <<>> THEN <<>>
    ELSE InsertByDate(sort_time_slices(SubSeq(slices, 1, Len(slices) - 1)),
                      slices[Len(slices)])

\* next_date.strftime("%Y%m%d"): the text of the date
strftime(date) == ToString(date)

find_time_slice_deltas(slices) ==
    IF Len(slices) <= 1 THEN slices
    ELSE [index \in 1..Len(slices) |->
            IF index = Len(slices) THEN slices[index]
            ELSE [slices[index] EXCEPT
                    !.delta = DaysBetween(slices[index].date, slices[index + 1].date),
                    !.end_date = strftime(slices[index + 1].date)]]

\* the entities with every point kept
KeepPoints(ents, pts, list) == ents

\* for point in time_slice.points: if point in point.owner.points: remove
RECURSIVE DetachPoints(_, _, _)
DetachPoints(ents, pts, list) ==
    IF list = <<>> THEN ents
    ELSE DetachPoints([ents EXCEPT ![pts[Head(list)].owner].points =
                                        RemoveFirst(@, Head(list))],
                      pts, Tail(list))

\* not time_slice.points or not time_slice.delta
IsEmptyTimeSlice(time_slice) ==
    time_slice.points = <<>> \/ IsNone(time_slice.delta) \/ time_slice.delta = 0

\* the loop over list(time_slices); returns [st, time_slices]
RECURSIVE remove_empty_time_slices(_, _, _)
remove_empty_time_slices(st, todo, kept) ==
    IF todo = <<>> THEN [st |-> st, time_slices |-> kept]
    ELSE LET time_slice == Head(todo)
         IN  IF IsEmptyTimeSlice(time_slice)
             THEN remove_empty_time_slices(
                      [st EXCEPT !.ents = DetachPoints(@, st.pts, time_slice.points),
                                 !.fents = IF time_slice.focus_points = <<>> THEN @
                                           ELSE DetachPoints(@, st.fpts,
                                                             time_slice.focus_points)],
                      Tail(todo), kept)
             ELSE remove_empty_time_slices(st, Tail(todo), Append(kept, time_slice))

-----------------------------------------------------------------------------
(* Neighbour caching: _TimeSlice.cache_nearest_neighbors and               *)
(* _cache_neighbors_in_time_slices.  Positions are 1-based positions in    *)
(* time_slice.points; the position n + 1 stands for the index n that       *)
(* cKDTree.query reports for a neighbour that does not exist.  Distances   *)
(* are kept squared.                                                       *)

SquaredDistance(x1, y1, x2, y2) == (x1 - x2) * (x1 - x2) + (y1 - y2) * (y1 - y2)

\* the orders in which the `count` nearest of the positions R can be
\* reported: ascending distance, equidistant points in any order
RECURSIVE NearestOrders(_, _, _)
NearestOrders(R, dist, count) ==
    IF count = 0 \/ R = {} THEN {<<>>}
    ELSE UNION { { <<i>> \o rest : rest \in NearestOrders(R \ {i}, dist, count - 1) }
                 : i \in {j \in R : \A o \in R : dist[j] <= dist[o]} }

\* knn.query(np.array((x, y)), k=kq)[1]: the possible index arrays
knn_query(pts, slice_points, x, y, kq) ==
    LET n == Len(slice_points)
        dist == [i \in 1..n |->
                    SquaredDistance(pts[slice_points[i]].x, pts[slice_points[i]].y, x, y)]
    IN  { found \o [i \in 1..(kq - Len(found)) |-> n + 1]
          : found \in NearestOrders(1..n, dist, kq) }

\* the index array with its first index kept
KeepFirst(indexes) == indexes

\* [1:] to keep every point except the first one which is itself
DropFirst(indexes) == Tail(indexes)

\* [self.points[index] for index in indexes[1:]]
study_point_neighbors(slice_points, indexes) ==
    [i \in 1..Len(DropFirst(indexes)) |-> slice_points[DropFirst(indexes)[i]]]

\* the loop over self.points.  The query is a function of the tree and of the
\* coordinates asked, so points with the same coordinates get the same index
\* array: answers holds the [x, y, indexes] of the queries made so far.
RECURSIVE cache_study_points(_, _, _, _, _)
cache_study_points(pts, slice_points, todo, k, answers) ==
    IF todo = <<>> THEN {pts}
    ELSE LET p == Head(todo)
             asked == {a \in DOMAIN answers :
                            answers[a].x = pts[p].x /\ answers[a].y = pts[p].y}
             arrays == IF asked # {}
                       THEN {answers[CHOOSE a \in asked : TRUE].indexes}
                       ELSE knn_query(pts, slice_points, pts[p].x, pts[p].y, k + 1)
         IN  UNION { cache_study_points(
                        [pts EXCEPT ![p].neighbors =
                                        study_point_neighbors(slice_points, indexes)],
                        slice_points, Tail(todo), k,
                        Append(answers, [x |-> pts[p].x, y |-> pts[p].y,
                                         indexes |-> indexes]))
                     : indexes \in arrays }

\* the [neighbors, neighbor_distances] focus point f can get from its query
focus_point_neighbors(pts, fpts, slice_points, f, k) ==
    { [neighbors |-> [i \in 1..Len(indexes) |-> slice_points[indexes[i]]],
       neighbor_distances |->
            [i \in 1..Len(indexes) |->
                SquaredDistance(pts[slice_points[indexes[i]]].x,
                                pts[slice_points[indexes[i]]].y, fpts[f].x, fpts[f].y)]]
      : indexes \in knn_query(pts, slice_points, fpts[f].x, fpts[f].y, k) }

RECURSIVE cache_focus_points(_, _, _, _, _)
cache_focus_points(pts, fpts, slice_points, todo, k) ==
    IF todo = <<>> THEN {fpts}
    ELSE UNION { cache_focus_points(pts,
                     [fpts EXCEPT ![Head(todo)].neighbors = found.neighbors,
                                  ![Head(todo)].neighbor_distances = found.neighbor_distances],
                     slice_points, Tail(todo), k)
                 : found \in focus_point_neighbors(pts, fpts, slice_points, Head(todo), k) }

\* _TimeSlice.cache_nearest_neighbors: the outcomes [st, raised].  A query
\* for more points than the slice holds indexes self.points out of range.
cache_nearest_neighbors(st, time_slice, k) ==
    LET n == Len(time_slice.points)
    IN  IF k < 1 THEN { [st |-> st, raised |-> "ValueError"] }
        ELSE IF (n >= 1 /\ k + 1 > n) \/ (n = 0 /\ time_slice.focus_points # <<>>)
        THEN { [st |-> st, raised |-> "IndexError"] }
        ELSE { [st |-> [st EXCEPT !.pts = cached, !.fpts = fcached], raised |-> None]
               : cached \in cache_study_points(st.pts, time_slice.points,
                                               time_slice.points, k, <<>>),
                 fcached \in cache_focus_points(st.pts, st.fpts, time_slice.points,
                                                time_slice.focus_points, k) }

\* the number of neighbours asked of a slice: the clamp of the requested k
ClampedK(time_slice, number_neighbors) ==
    IF Len(time_slice.points) <= number_neighbors
    THEN Len(time_slice.points) - 1
    ELSE number_neighbors

RECURSIVE cache_neighbors_loop(_, _, _)
cache_neighbors_loop(st, todo, number_neighbors) ==
    IF todo = <<>> THEN { [st |-> st, raised |-> None] }
    ELSE IF Len(Head(todo).points) <= 1
    THEN cache_neighbors_loop(st, Tail(todo), number_neighbors)
    ELSE UNION { IF out.raised # None THEN {out}
                 ELSE cache_neighbors_loop(out.st, Tail(todo), number_neighbors)
                 : out \in cache_nearest_neighbors(
                               st, Head(todo), ClampedK(Head(todo), number_neighbors)) }

\* a caching that visits the slices without testing that there is one
CacheWithoutSliceTest(st, slices, number_neighbors) ==
    cache_neighbors_loop(st, slices, number_neighbors)

\* _cache_neighbors_in_time_slices: the outcomes [st, raised]
cache_neighbors_in_time_slices(st, slices, number_neighbors) ==
    IF Len(slices) = 0 THEN { [st |-> st, raised |-> "ValueError"] }
    ELSE cache_neighbors_loop(st, slices, number_neighbors)

-----------------------------------------------------------------------------
(* Observed and reference statistics                                       *)

\* the neighbours labelled case, exposed or not
count_case_neighbors(pts, neighbors) ==
    SumSeq([i \in 1..Len(neighbors) |-> BoolInt(pts[neighbors[i]].temp_case_status)])

\* sum([neighbor.temp_case_status and neighbor.exposed for neighbor in neighbors])
count_eligible_neighbors(pts, neighbors) ==
    SumSeq([i \in 1..Len(neighbors) |->
                BoolInt(pts[neighbors[i]].temp_case_status /\ pts[neighbors[i]].exposed)])

\* _StudyPoint.calculate_point_statistic: the value of point_stat.statistic
study_point_statistic(pts, p, multiplier) ==
    IF pts[p].owner_is_case /\ pts[p].exposed
    THEN count_eligible_neighbors(pts, pts[p].neighbors) * multiplier
    ELSE 0

\* _FocusPoint.calculate_point_statistic
focus_point_statistic(pts, fpts, f, multiplier) ==
    count_eligible_neighbors(pts, fpts[f].neighbors) * multiplier

\* the sum of the points' statistics, not divided
UnscaledQt(stat, delta) == stat

\* stat // self.delta
observed_Qt(stat, delta) == stat \div delta

\* _TimeSlice.calculate_observed_Qt_and_points_Qit: [pts, time_slice]
calculate_observed_Qt_and_points_Qit(pts, time_slice) ==
    LET Qit == [i \in 1..Len(time_slice.points) |->
                    study_point_statistic(pts, time_slice.points[i], time_slice.delta)]
    IN  [pts |-> [p \in DOMAIN pts |->
                    IF \E i \in DOMAIN time_slice.points : time_slice.points[i] = p
                    THEN [pts[p] EXCEPT !.point_stat.statistic =
                                study_point_statistic(pts, p, time_slice.delta)]
                    ELSE pts[p]],
         time_slice |-> [time_slice EXCEPT
                            !.Qt.statistic = observed_Qt(SumSeq(Qit), time_slice.delta)]]

\* _TimeSlice.calculate_observed_Qft
calculate_observed_Qft(pts, fpts, time_slice) ==
    [f \in DOMAIN fpts |->
        IF \E i \in DOMAIN time_slice.focus_points : time_slice.focus_points[i] = f
        THEN [fpts[f] EXCEPT !.point_stat.statistic =
                    focus_point_statistic(pts, fpts, f, time_slice.delta)]
        ELSE fpts[f]]

\* sum([point.point_stat.statistic for point in self.points])
SumOfPointStatistics(entity, pts) ==
    SumSeq([i \in 1..Len(entity.points) |-> pts[entity.points[i]].point_stat.statistic])

\* the same sum, whatever the entity is
EntityStatisticIgnoringStatus(entity, pts) == SumOfPointStatistics(entity, pts)

\* _StudyEntity.calculate_entity_statistic: the value of entity_stat.statistic
study_entity_statistic(entity, pts) ==
    IF entity.is_case THEN SumOfPointStatistics(entity, pts) ELSE 0

\* _FocusEntity.calculate_entity_statistic
focus_entity_statistic(entity, fpts) == SumOfPointStatistics(entity, fpts)

\* reference >= observed: the trial passes (ties count)
StrictlyGreater(reference, observed) == reference > observed

shuffle_passed(reference, observed) == reference >= observed

\* a counter that a passed trial advances by two
CountTwice(stat, reference) ==
    IF shuffle_passed(reference, stat.statistic)
    THEN [stat EXCEPT !.shuffles_passed = @ + 2]
    ELSE stat

\* the counter after one trial
count_shuffle(stat, reference) ==
    IF shuffle_passed(reference, stat.statistic)
    THEN [stat EXCEPT !.shuffles_passed = @ + 1]
    ELSE stat

\* _StudyPoint.calculate_reference_distribution: the returned stat
study_point_reference_count(pts, p) ==
    IF pts[p].exposed /\ (pts[p].owner_is_case \/ pts[p].temp_case_status)
    THEN count_eligible_neighbors(pts, pts[p].neighbors)
    ELSE 0

\* a reference value gated by the label of the trial instead of the owner
ReferenceStatOfLabelledPoints(pts, p, multiplier) ==
    IF pts[p].exposed /\ pts[p].temp_case_status
    THEN count_eligible_neighbors(pts, pts[p].neighbors) * multiplier
    ELSE 0

\* ... and the value of reference_stat
study_point_reference_stat(pts, p, multiplier) ==
    IF pts[p].exposed /\ pts[p].owner_is_case
    THEN study_point_reference_count(pts, p) * multiplier
    ELSE 0

\* the slice of point p among slices, 0 when p is in none
SliceOfPoint(slices, p) ==
    IF \E t \in DOMAIN slices : p \in Range(slices[t].points)
    THEN CHOOSE t \in DOMAIN slices : p \in Range(slices[t].points)
    ELSE 0

SliceOfFocusPoint(slices, f) ==
    IF \E t \in DOMAIN slices : f \in Range(slices[t].focus_points)
    THEN CHOOSE t \in DOMAIN slices : f \in Range(slices[t].focus_points)
    ELSE 0

\* the points after every slice ran calculate_reference_distribution
reference_study_points(pts, slices) ==
    [p \in DOMAIN pts |->
        LET t == SliceOfPoint(slices, p)
        IN  IF t = 0 THEN pts[p]
            ELSE LET reference == study_point_reference_stat(pts, p, slices[t].delta)
                 IN  [pts[p] EXCEPT !.reference_stat = reference,
                                    !.point_stat = count_shuffle(@, reference)]]

\* _TimeSlice.calculate_reference_distribution: the returned stat
time_slice_reference(pts, time_slice) ==
    SumSeq([i \in 1..Len(time_slice.points) |->
                study_point_reference_count(pts, time_slice.points[i])])

\* _TimeSlice.calculate_focus_point_distribution, for every slice
reference_focus_points(pts, fpts, slices) ==
    [f \in DOMAIN fpts |->
        LET t == SliceOfFocusPoint(slices, f)
        IN  IF t = 0 THEN fpts[f]
            ELSE LET reference == count_eligible_neighbors(pts, fpts[f].neighbors)
                                    * slices[t].delta
                 IN  [fpts[f] EXCEPT !.reference_stat = reference,
                                     !.point_stat = count_shuffle(@, reference)]]

\* _BaseQEntity.calculate_reference_distribution: the returned stat
entity_reference(entity, pts) ==
    SumSeq([i \in 1..Len(entity.points) |-> pts[entity.points[i]].reference_stat])

\* if focus_entities: (a dict that is not None and not empty)
Truthy(dict) == ~IsNone(dict) /\ dict # <<>>

\* _extract_p_values_from_points_in_time_slices
RECURSIVE extract_p_values_from_points_in_time_slices(_, _, _)
extract_p_values_from_points_in_time_slices(slices, pts, fpts) ==
    IF slices = <<>> THEN <<>>
    ELSE [i \in 1..Len(Head(slices).points) |->
                pts[Head(slices).points[i]].point_stat.p_value]
         \o [i \in 1..Len(Head(slices).focus_points) |->
                fpts[Head(slices).focus_points[i]].point_stat.p_value]
         \o extract_p_values_from_points_in_time_slices(Tail(slices), pts, fpts)

\* str(correction).upper()
Upper(correction) ==
    CASE correction = "fdr" -> "FDR"
      [] correction = "binom" -> "BINOM"
      [] correction = None -> "NONE"
      [] OTHER -> correction

-----------------------------------------------------------------------------
(* Unit-level harness of the shuffle strategies: an entity dictionary of   *)
(* 0 .. NumEntities entities, each owning PointsPerEntity points, on which *)
(* either strategy is called any number of times (as the fixtures of       *)
(* tests/test_analysis_functions.py do).                                   *)

\* the points entity e owns in the fixture
FixturePoints(e) == [i \in 1..PointsPerEntity |-> (e - 1) * PointsPerEntity + i]

FixtureEntities(n, is_case, weight) ==
    [e \in 1..n |->
        [StudyEntity(e, is_case[e], None, None, weight[e])
            EXCEPT !.points = FixturePoints(e)]]

FixtureStudyPoints(n, is_case) ==
    [p \in 1..(n * PointsPerEntity) |->
        LET owner == ((p - 1) \div PointsPerEntity) + 1
        IN  StudyPoint(0, 0, owner, is_case[owner])]

Idle ==
    /\ args = None /\ tables = None /\ seed = None /\ rng_seed = None
    /\ focus_entities = None /\ focus_points = <<>> /\ time_slices = <<>>
    /\ global_Q = None /\ global_Qf = None /\ shuffle = 0 /\ trial = None
    /\ correct_alpha = None /\ results = None /\ raised = None
    /\ p_values = <<>> /\ ret = None

ShuffleInit ==
    /\ pc = "constructed"
    /\ \E n \in 0..NumEntities :
        \E is_case \in [1..n -> BOOLEAN], weight \in [1..n -> 0..MaxWeight] :
            /\ study_entities = FixtureEntities(n, is_case, weight)
            /\ points = FixtureStudyPoints(n, is_case)
    /\ Idle

UnitEqualRiskShuffle ==
    /\ \E out \in equal_risk_shuffle(study_entities, points) :
        /\ points' = out.points
        /\ raised' = out.raised
    /\ pc' = "equal_risk_shuffle"
    /\ UNCHANGED <<args, tables, seed, rng_seed, study_entities, focus_entities,
                   focus_points, time_slices, global_Q, global_Qf, shuffle, trial,
                   correct_alpha, results, p_values, ret>>

UnitCaseWeightShuffle ==
    /\ \E out \in case_weight_shuffle(study_entities, points) :
        /\ points' = out.points
        /\ raised' = out.raised
    /\ pc' = "case_weight_shuffle"
    /\ UNCHANGED <<args, tables, seed, rng_seed, study_entities, focus_entities,
                   focus_points, time_slices, global_Q, global_Qf, shuffle, trial,
                   correct_alpha, results, p_values, ret>>

ShuffleNext == UnitEqualRiskShuffle \/ UnitCaseWeightShuffle

SpecShuffle == ShuffleInit /\ [][ShuffleNext]_vars

\* the entities whose points all carry the temporary label `label`
AllPointsLabelled(e, label) ==
    \A i \in DOMAIN study_entities[e].points :
        points[study_entities[e].points[i]].temp_case_status = label

\* exactly as many entities labelled case as there are true cases, every
\* other entity labelled control
ExactlyCaseCountLabelled ==
    \E T \in SUBSET (DOMAIN study_entities) :
        /\ Cardinality(T) = remaining_case_flags(study_entities)
        /\ \A e \in DOMAIN study_entities : AllPointsLabelled(e, e \in T)

(* C1: after any call of either shuffle strategy on a non-empty entity set *)
(* with C true cases, exactly C entities have all their points labelled    *)
(* temp-case and every other entity has all its points labelled            *)
(* temp-control; on an empty entity set the call raises an input error.    *)
C1_ShuffleLabelsCaseCount ==
    pc \in {"equal_risk_shuffle", "case_weight_shuffle"} =>
        IF Len(study_entities) = 0
        THEN raised = "ValueError"
        ELSE ExactlyCaseCountLabelled

\* what does hold: every call that returns leaves exactly C entities
\* labelled, and the equal-risk strategy always returns on a non-empty set
C1_HoldsWhenShuffleReturns ==
    /\ (pc \in {"equal_risk_shuffle", "case_weight_shuffle"} /\ raised = None)
            => ExactlyCaseCountLabelled
    /\ (pc = "equal_risk_shuffle" /\ Len(study_entities) > 0) => raised = None
    /\ (raised = "ValueError") => Len(study_entities) = 0
    /\ (Len(study_entities) = 0 /\ pc # "constructed") => raised = "ValueError"

-----------------------------------------------------------------------------
(* _fdr_correction_dependent *)

\* list.sort() of a list of floats: ascending insertion sort
RECURSIVE InsertAscending(_, _)
InsertAscending(sorted, v) ==
    IF sorted = <<>> THEN <<v>>
    ELSE IF Less(v, Head(sorted)) THEN <<v>> \o sorted
    ELSE <<Head(sorted)>> \o InsertAscending(Tail(sorted), v)

RECURSIVE SortAscending(_)
SortAscending(list) ==
    IF list = <<>> THEN <<>>
    ELSE InsertAscending(SortAscending(SubSeq(list, 1, Len(list) - 1)), list[Len(list)])

\* sum([1.0 / i for i in range(1, n + 1)]) as a fraction
RECURSIVE HarmonicSum(_)
HarmonicSum(n) ==
    IF n = 0 THEN Frac(0, 1)
    ELSE LET h == HarmonicSum(n - 1) IN Lowest(Frac(h[1] * n + h[2], h[2] * n))

\* ratio = alpha_value / (number_of_p_values * sum(...))
fdr_ratio(number_of_p_values, alpha_value) ==
    LET h == HarmonicSum(number_of_p_values)
        one_over == Lowest(Frac(h[2], number_of_p_values * h[1]))
    IN  Lowest(Frac(alpha_value[1] * one_over[1], alpha_value[2] * one_over[2]))

\* the indexes of the scan: range(1, number_of_p_values + 1)
FdrScanBackwards(number_of_p_values) ==
    [i \in 1..number_of_p_values |-> number_of_p_values + 1 - i]

fdr_scan_order(number_of_p_values) ==
    [i \in 1..number_of_p_values |-> i]

\* the for loop over the scan order: the first index that passes decides
RECURSIVE fdr_scan(_, _, _)
fdr_scan(sorted, ratio, order) ==
    IF order = <<>> THEN Frac(0, 1)
    ELSE LET index == Head(order)
             adjusted == Frac(index * ratio[1], ratio[2])
         IN  IF Leq(sorted[index], adjusted) THEN sorted[index]
             ELSE fdr_scan(sorted, ratio, Tail(order))

\* the call: [ret, raised, p_values], p_values being the caller's list after
\* the call (sorted in place)
fdr_correction_dependent(dependent_p_values, alpha_value) ==
    IF Len(dependent_p_values) = 0
    THEN [ret |-> None, raised |-> "ValueError", p_values |-> dependent_p_values]
    ELSE LET sorted == SortAscending(dependent_p_values)
             number_of_p_values == Len(sorted)
         IN  [ret |-> fdr_scan(sorted, fdr_ratio(number_of_p_values, alpha_value),
                               fdr_scan_order(number_of_p_values)),
              raised |-> None, p_values |-> sorted]

-----------------------------------------------------------------------------
(* Unit-level harness of the FDR correction: a pool of 0 .. MaxPool        *)
(* p-values in any order and an alpha, as tests/test_analysis_functions.py *)
(* TestFalseDiscoveryRate calls it.                                        *)

AlphaMenu == {Frac(0, 1), Frac(1, 20), Frac(1, 2), Frac(1, 1)}

FdrInit ==
    /\ pc = "constructed"
    /\ \E n \in 0..MaxPool : p_values \in [1..n -> {Frac(i, PGrid) : i \in 0..PGrid}]
    /\ args \in [alpha : AlphaMenu]
    /\ tables = p_values
    /\ study_entities = <<>> /\ points = <<>>
    /\ seed = None /\ rng_seed = None
    /\ focus_entities = None /\ focus_points = <<>> /\ time_slices = <<>>
    /\ global_Q = None /\ global_Qf = None /\ shuffle = 0 /\ trial = None
    /\ correct_alpha = None /\ results = None /\ raised = None /\ ret = None

UnitFdrCorrection ==
    /\ LET out == fdr_correction_dependent(p_values, args.alpha)
       IN  /\ ret' = out.ret
           /\ raised' = out.raised
           /\ p_values' = out.p_values
    /\ pc' = "fdr_correction_dependent"
    /\ UNCHANGED <<args, tables, seed, rng_seed, study_entities, focus_entities,
                   points, focus_points, time_slices, global_Q, global_Qf, shuffle,
                   trial, correct_alpha, results>>

FdrNext == UnitFdrCorrection

SpecFdr == FdrInit /\ [][FdrNext]_vars

\* s is the list `original` rearranged into ascending order
IsAscendingPermutation(s, original) ==
    /\ Len(s) = Len(original)
    /\ \A i \in 1..(Len(s) - 1) : s[i][1] * s[i + 1][2] <= s[i + 1][1] * s[i][2]
    /\ \A v \in Range(original) \cup Range(s) :
        Cardinality({i \in DOMAIN s : s[i] = v})
            = Cardinality({i \in DOMAIN original : original[i] = v})

RECURSIVE Factorial(_)
Factorial(n) == IF n = 0 THEN 1 ELSE n * Factorial(n - 1)

\* p <= i * alpha / (N * H_N), with H_N = (sum of N!/j) / N!
Qualifies(p, i, N, alpha) ==
    LET hn == SumSeq([j \in 1..N |-> Factorial(N) \div j])
    IN  p[1] * alpha[2] * N * hn <= i * alpha[1] * Factorial(N) * p[2]

C11_FdrReturnsLargestQualifying ==
    (pc = "fdr_correction_dependent" /\ Len(tables) > 0) =>
        LET N == Len(tables)
            ok == {i \in 1..N : Qualifies(p_values[i], i, N, args.alpha)}
        IN  IF ok = {} THEN ret = Frac(0, 1)
            ELSE ret = p_values[CHOOSE i \in ok : \A j \in ok : j <= i]

\* what does hold of the largest qualifying p-value: the call returns it
\* when no smaller p-value of the pool qualifies at its own index
C11_LargestWhenOnlyOneQualifies ==
    (pc = "fdr_correction_dependent" /\ Len(tables) > 0) =>
        LET N == Len(tables)
            ok == {i \in 1..N : Qualifies(p_values[i], i, N, args.alpha)}
        IN  Cardinality(ok) = 1 => ret = p_values[CHOOSE i \in ok : TRUE]

-----------------------------------------------------------------------------
(* Unit-level harness of _StudyEntity.calculate_entity_statistic: one      *)
(* entity, case or control, whose point list holds any of the points of    *)
(* the store in any order, as tests/test_study_entity.py builds it.        *)

\* the lists of distinct points an entity can hold
PointLists ==
    { list \in UNION { [1..n -> 1..PointsPerEntity] : n \in 0..PointsPerEntity } :
        \A i, j \in DOMAIN list : i # j => list[i] # list[j] }

EntityInit ==
    /\ pc = "constructed"
    /\ \E is_case \in BOOLEAN, list \in PointLists,
          statistic \in [1..PointsPerEntity -> 0..MaxStat] :
        /\ study_entities = <<[StudyEntity(1, is_case, None, None, None)
                                    EXCEPT !.points = list]>>
        /\ points = [p \in 1..PointsPerEntity |->
                        [StudyPoint(0, 0, 1, is_case)
                            EXCEPT !.point_stat.statistic = statistic[p]]]
    /\ Idle

UnitCalculateEntityStatistic ==
    /\ pc = "constructed"
    /\ study_entities' = [e \in DOMAIN study_entities |->
                            [study_entities[e] EXCEPT !.entity_stat.statistic =
                                study_entity_statistic(study_entities[e], points)]]
    /\ pc' = "calculate_entity_statistic"
    /\ UNCHANGED <<args, tables, seed, rng_seed, focus_entities, points, focus_points,
                   time_slices, global_Q, global_Qf, shuffle, trial, correct_alpha,
                   results, raised, p_values, ret>>

EntityNext == UnitCalculateEntityStatistic

SpecEntity == EntityInit /\ [][EntityNext]_vars

\* C5: calculate_entity_statistic leaves Q_i = 0 on a control entity whatever
\* its points hold, and on a case entity the sum of the Q_it of the points of
\* its point list (0 for the empty list).
C5_EntityStatistic ==
    pc = "calculate_entity_statistic" =>
        LET entity == study_entities[1]
        IN  entity.entity_stat.statistic =
                IF entity.is_case
                THEN SumSeq([i \in 1..Len(entity.points) |->
                                points[entity.points[i]].point_stat.statistic])
                ELSE 0

\* a control whose points hold positive statistics, after the call
C5_Witness ==
    /\ pc = "calculate_entity_statistic"
    /\ ~study_entities[1].is_case
    /\ Len(study_entities[1].points) = PointsPerEntity
    /\ \A p \in DOMAIN points : points[p].point_stat.statistic > 0
    /\ study_entities[1].entity_stat.statistic = 0

-----------------------------------------------------------------------------
(* QStatsStudy.run_analysis, one action per step of its body.  An          *)
(* exception ends the run: pc = "error", raised names it.                  *)

\* the study entities of a run
RunEntities == {1, 2, 3}

\* interval boundaries of the input rows: 26 and 28 February, 5 and 7 March
Boundaries == <<20150226, 20150228, 20150305, 20150307>>

D1 == Boundaries[1]

D2 == Boundaries[2]

D3 == Boundaries[3]

D4 == Boundaries[4]

\* the details row of entity e: exposure windows that cover every slice,
\* end at D2, or start at D2 and end between D2 and D3
DetailsRow(e, is_case) ==
    [ID |-> e, is_case |-> is_case, DOD |-> D3,
     latency |-> CASE e % 3 = 1 -> 0 [] e % 3 = 2 -> 5 [] OTHER -> 2,
     exposure_duration |-> CASE e % 3 = 1 -> 7 [] e % 3 = 2 -> 2 [] OTHER -> 3,
     weight |-> e % (MaxWeight + 1)]

\* the spellings of the is_case column entity e can have: the first entity
\* is a case in every run
IsCaseMenu(e) ==
    CASE e % 3 = 1 -> {"1"}
      [] e % 3 = 2 -> {"True", "0"}
      [] OTHER     -> {"yes", "FALSE"}

\* the histories rows entity e can have: one interval, possibly empty; the
\* second row of entity 2 shares the location of entity 1
HistoryMenu(e) ==
    CASE e % 3 = 1 -> { [ID |-> e, start_date |-> D1, end_date |-> D3, x |-> 0, y |-> 0] }
      [] e % 3 = 2 -> { [ID |-> e, start_date |-> D1, end_date |-> D3, x |-> 1, y |-> 0],
                        [ID |-> e, start_date |-> D1, end_date |-> D2, x |-> 0, y |-> 0] }
      [] OTHER     -> { [ID |-> e, start_date |-> D2, end_date |-> D3, x |-> 4, y |-> 0],
                        [ID |-> e, start_date |-> D2, end_date |-> D2, x |-> 4, y |-> 0] }

\* the focus tables of the runs that have one: one focus location
FocusMenu ==
    { <<[ID |-> 9, start_date |-> D1, end_date |-> D4, x |-> 3, y |-> 0]>> }

TablesMenu(focus_tables) ==
    { [details |-> [e \in RunEntities |-> DetailsRow(e, is_case[e])],
       histories |-> histories, focus |-> focus]
      : is_case \in {c \in [RunEntities -> UNION {IsCaseMenu(e) : e \in RunEntities}] :
                            \A e \in RunEntities : c[e] \in IsCaseMenu(e)},
        histories \in {h \in [RunEntities -> UNION {HistoryMenu(e) : e \in RunEntities}] :
                            \A e \in RunEntities : h[e] \in HistoryMenu(e)},
        focus \in focus_tables }

\* tables in which the first two entities are cases and only the first
\* present entities have a non-empty interval: no slice, one slice of one
\* point, or one slice of two points
SparseTables ==
    { [details |-> [e \in RunEntities |->
                        DetailsRow(e, CASE e = 1 -> "1" [] e = 2 -> "True" [] OTHER -> "0")],
       histories |-> [e \in RunEntities |->
                        [ID |-> e, start_date |-> D1,
                         end_date |-> IF e <= present THEN D3 ELSE D1,
                         x |-> e, y |-> 0]],
       focus |-> None] : present \in 0..2 }

\* the arguments of run_analysis
ArgsMenu(ks, flags, alphas, corrections, seeds, suppress) ==
    [k : ks, use_exposure : flags, use_weights : flags,
     alpha : alphas, shuffles : {NumShuffles}, correction : corrections,
     seed : seeds, suppress_controls : suppress]

\* runs over every table with a supplied seed; runs over one table with
\* every seed argument: omitted, 0 and the other values; runs without
\* control output; runs without a correction at an alpha that is one of the
\* p-values; runs over the sparse tables, with an alpha of 1 too, at which the
\* FDR threshold can be positive
Init ==
    /\ pc = "start"
    /\ \/ /\ args \in ArgsMenu(0..MaxK, BOOLEAN, {Frac(1, 2)}, {"fdr", "BINOM"},
                               {MaxSeed}, {FALSE})
          /\ \E with_focus \in BOOLEAN :
                tables \in TablesMenu(IF with_focus THEN FocusMenu ELSE {None})
       \/ /\ \E supplied \in BOOLEAN :
                args \in ArgsMenu({1}, {FALSE}, {Frac(1, 2)}, {"BINOM"},
                                  IF supplied THEN 0..MaxSeed ELSE {None}, {FALSE})
          /\ tables = [details |-> [e \in RunEntities |->
                                        DetailsRow(e, IF e = 1 THEN "1" ELSE "0")],
                       histories |-> [e \in RunEntities |->
                                        [ID |-> e, start_date |-> D1, end_date |-> D3,
                                         x |-> e, y |-> 0]],
                       focus |-> None]
       \/ /\ args \in ArgsMenu({1}, {FALSE}, {Frac(1, 2)}, {"BINOM"}, {MaxSeed}, {TRUE})
          /\ \E with_focus \in BOOLEAN :
                tables \in TablesMenu(IF with_focus THEN FocusMenu ELSE {None})
       \/ /\ args \in ArgsMenu({1}, {FALSE}, {Frac(1, NumShuffles + 1)}, {None},
                               {MaxSeed}, {FALSE})
          /\ tables \in TablesMenu(FocusMenu)
       \/ /\ args \in ArgsMenu(0..1, {FALSE}, {Frac(1, 2)}, {"fdr", "BINOM"}, {MaxSeed},
                               {FALSE})
          /\ tables \in SparseTables
       \/ /\ args \in ArgsMenu({1}, {FALSE}, {Frac(1, 1)}, {"fdr"}, {MaxSeed}, {FALSE})
          /\ tables \in SparseTables
    /\ seed = args.seed
    /\ rng_seed = None
    /\ study_entities = <<>> /\ focus_entities = None
    /\ points = <<>> /\ focus_points = <<>> /\ time_slices = <<>>
    /\ global_Q = None /\ global_Qf = None /\ shuffle = 0 /\ trial = None
    /\ correct_alpha = None /\ results = None /\ raised = None
    /\ p_values = <<>> /\ ret = None

\* not seed: None and 0 are both falsy
NotSeed(value) == IsNone(value) \/ value = 0

SeedMissing(value) == IsNone(value)

\* lines 944-947
SetSeed ==
    /\ pc = "start"
    /\ IF NotSeed(seed)
       THEN seed' \in 0..MaxSeed
       ELSE seed' = seed
    /\ rng_seed' = seed'
    /\ pc' = "seeded"
    /\ UNCHANGED <<args, tables, study_entities, focus_entities, points, focus_points,
                   time_slices, global_Q, global_Qf, shuffle, trial, correct_alpha,
                   results, raised, p_values, ret>>

\* lines 948-965
LoadAndSlice ==
    /\ pc = "seeded"
    /\ LET ents == extract_study_entities(tables.details, args.use_exposure,
                                          args.use_weights)
           fents == IF ~IsNone(tables.focus) THEN extract_focus_entities(tables.focus)
                    ELSE None
           unique_dates == extract_unique_dates(ents, tables.histories, tables.focus,
                                                args.use_exposure)
           out == create_time_slices_from_series(
                      SetIterationOrder(unique_dates),
                      [ents |-> ents, fents |-> fents, pts |-> <<>>, fpts |-> <<>>],
                      <<>>, tables.histories,
                      IF IsNone(tables.focus) THEN <<>> ELSE tables.focus,
                      args.use_exposure)
       IN  /\ study_entities' = out.st.ents
           /\ focus_entities' = out.st.fents
           /\ points' = out.st.pts
           /\ focus_points' = out.st.fpts
           /\ time_slices' = out.time_slices
    /\ pc' = "sliced"
    /\ UNCHANGED <<args, tables, seed, rng_seed, global_Q, global_Qf, shuffle, trial,
                   correct_alpha, results, raised, p_values, ret>>

\* line 967
SortTimeSlices ==
    /\ pc = "sliced"
    /\ time_slices' = sort_time_slices(time_slices)
    /\ pc' = "sorted"
    /\ UNCHANGED <<args, tables, seed, rng_seed, study_entities, focus_entities,
                   points, focus_points, global_Q, global_Qf, shuffle, trial,
                   correct_alpha, results, raised, p_values, ret>>

\* line 968
FindTimeSliceDeltas ==
    /\ pc = "sorted"
    /\ time_slices' = find_time_slice_deltas(time_slices)
    /\ pc' = "deltas"
    /\ UNCHANGED <<args, tables, seed, rng_seed, study_entities, focus_entities,
                   points, focus_points, global_Q, global_Qf, shuffle, trial,
                   correct_alpha, results, raised, p_values, ret>>

\* line 969
RemoveEmptyTimeSlices ==
    /\ pc = "deltas"
    /\ LET out == remove_empty_time_slices(
                      [ents |-> study_entities, fents |-> focus_entities,
                       pts |-> points, fpts |-> focus_points], time_slices, <<>>)
       IN  /\ study_entities' = out.st.ents
           /\ focus_entities' = out.st.fents
           /\ time_slices' = out.time_slices
    /\ pc' = "pruned"
    /\ UNCHANGED <<args, tables, seed, rng_seed, points, focus_points, global_Q,
                   global_Qf, shuffle, trial, correct_alpha, results, raised,
                   p_values, ret>>

\* line 970
CacheNeighbors ==
    /\ pc = "pruned"
    /\ \E out \in cache_neighbors_in_time_slices(
                      [ents |-> study_entities, fents |-> focus_entities,
                       pts |-> points, fpts |-> focus_points], time_slices, args.k) :
        /\ points' = out.st.pts
        /\ focus_points' = out.st.fpts
        /\ raised' = out.raised
        /\ pc' = IF out.raised = None THEN "cached" ELSE "error"
    /\ UNCHANGED <<args, tables, seed, rng_seed, study_entities, focus_entities,
                   time_slices, global_Q, global_Qf, shuffle, trial, correct_alpha,
                   results, p_values, ret>>

\* the loop of lines 973-976 over the slices; returns [pts, fpts, slices]
RECURSIVE observed_slices(_, _, _, _, _)
observed_slices(pts, fpts, todo, done, with_focus) ==
    IF todo = <<>> THEN [pts |-> pts, fpts |-> fpts, slices |-> done]
    ELSE LET out == calculate_observed_Qt_and_points_Qit(pts, Head(todo))
         IN  observed_slices(out.pts,
                             IF with_focus
                             THEN calculate_observed_Qft(out.pts, fpts, Head(todo))
                             ELSE fpts,
                             Tail(todo), Append(done, out.time_slice), with_focus)

\* the statistic of the last case entity: an assignment in place of +=
LastCaseStatistic(ents) ==
    IF \E e \in DOMAIN ents : ents[e].is_case
    THEN LET last == CHOOSE e \in DOMAIN ents :
                        ents[e].is_case /\ \A o \in DOMAIN ents : ents[o].is_case => o <= e
         IN  ents[last].entity_stat.statistic
    ELSE 0

\* sum of the statistics of the case entities (lines 981-984)
global_Q_statistic(ents) ==
    SumSeq([e \in 1..Len(ents) |->
                IF ents[e].is_case THEN ents[e].entity_stat.statistic ELSE 0])

\* lines 972-988
CalculateObserved ==
    /\ pc = "cached"
    /\ LET out == observed_slices(points, focus_points, time_slices, <<>>,
                                  Truthy(focus_entities))
           ents == [e \in DOMAIN study_entities |->
                        [study_entities[e] EXCEPT !.entity_stat.statistic =
                            study_entity_statistic(study_entities[e], out.pts)]]
           fents == IF Truthy(focus_entities)
                    THEN [e \in DOMAIN focus_entities |->
                            [focus_entities[e] EXCEPT !.entity_stat.statistic =
                                focus_entity_statistic(focus_entities[e], out.fpts)]]
                    ELSE focus_entities
       IN  /\ points' = out.pts
           /\ focus_points' = out.fpts
           /\ time_slices' = out.slices
           /\ study_entities' = ents
           /\ focus_entities' = fents
           /\ global_Q' = [StudyStatistic EXCEPT !.statistic = global_Q_statistic(ents)]
           /\ global_Qf' = [StudyStatistic EXCEPT !.statistic =
                                IF Truthy(focus_entities)
                                THEN SumSeq([e \in 1..Len(fents) |->
                                                fents[e].entity_stat.statistic])
                                ELSE 0]
    /\ pc' = "observed"
    /\ UNCHANGED <<args, tables, seed, rng_seed, shuffle, trial, correct_alpha,
                   results, raised, p_values, ret>>

\* line 992: the relabelling that opens a trial
ShuffleFlags ==
    /\ pc = "observed"
    /\ shuffle < args.shuffles
    /\ \E out \in shuffle_flags(study_entities, points, args.use_weights) :
        /\ points' = out.points
        /\ raised' = out.raised
        /\ pc' = IF out.raised = None THEN "shuffled" ELSE "error"
    /\ UNCHANGED <<args, tables, seed, rng_seed, study_entities, focus_entities,
                   focus_points, time_slices, global_Q, global_Qf, shuffle, trial,
                   correct_alpha, results, p_values, ret>>

\* lines 993-1007: the reference statistics of the trial and the counters
CalculateReference ==
    /\ pc = "shuffled"
    /\ LET pts == reference_study_points(points, time_slices)
           slice_reference == [t \in DOMAIN time_slices |->
                                  time_slice_reference(points, time_slices[t])]
           fpts == IF Truthy(focus_entities)
                   THEN reference_focus_points(points, focus_points, time_slices)
                   ELSE focus_points
           study_reference == [e \in DOMAIN study_entities |->
                                  entity_reference(study_entities[e], pts)]
           global_Q_reference == SumSeq(study_reference)
           focus_reference == IF Truthy(focus_entities)
                              THEN [e \in DOMAIN focus_entities |->
                                      entity_reference(focus_entities[e], fpts)]
                              ELSE <<>>
           global_Qf_reference == SumSeq(focus_reference)
       IN  /\ points' = pts
           /\ focus_points' = fpts
           /\ time_slices' = [t \in DOMAIN time_slices |->
                                [time_slices[t] EXCEPT
                                    !.Qt = count_shuffle(@, slice_reference[t])]]
           /\ study_entities' = [e \in DOMAIN study_entities |->
                                    [study_entities[e] EXCEPT
                                        !.entity_stat = count_shuffle(@, study_reference[e])]]
           /\ global_Q' = count_shuffle(global_Q, global_Q_reference)
           /\ focus_entities' = IF Truthy(focus_entities)
                                THEN [e \in DOMAIN focus_entities |->
                                        [focus_entities[e] EXCEPT
                                            !.entity_stat =
                                                count_shuffle(@, focus_reference[e])]]
                                ELSE focus_entities
           /\ global_Qf' = IF Truthy(focus_entities)
                           THEN count_shuffle(global_Qf, global_Qf_reference)
                           ELSE global_Qf
           /\ trial' = [time_slices |-> slice_reference,
                        study_entities |-> study_reference,
                        focus_entities |-> focus_reference,
                        global_Q |-> global_Q_reference,
                        global_Qf |-> global_Qf_reference]
    /\ shuffle' = shuffle + 1
    /\ pc' = "observed"
    /\ UNCHANGED <<args, tables, seed, rng_seed, correct_alpha, results, raised,
                   p_values, ret>>

\* lines 1009-1022
CalculatePValues ==
    /\ pc = "observed"
    /\ shuffle >= args.shuffles
    /\ time_slices' = [t \in DOMAIN time_slices |->
                        [time_slices[t] EXCEPT !.Qt = calculate_p_value(@, args.shuffles)]]
    /\ points' = [p \in DOMAIN points |->
                    IF SliceOfPoint(time_slices, p) # 0
                    THEN [points[p] EXCEPT
                            !.point_stat = calculate_p_value(@, args.shuffles)]
                    ELSE points[p]]
    /\ focus_points' = [f \in DOMAIN focus_points |->
                    IF SliceOfFocusPoint(time_slices, f) # 0
                    THEN [focus_points[f] EXCEPT
                            !.point_stat = calculate_p_value(@, args.shuffles)]
                    ELSE focus_points[f]]
    /\ study_entities' = [e \in DOMAIN study_entities |->
                            [study_entities[e] EXCEPT
                                !.entity_stat = calculate_p_value(@, args.shuffles)]]
    /\ global_Q' = calculate_p_value(global_Q, args.shuffles)
    /\ focus_entities' = IF Truthy(focus_entities)
                         THEN [e \in DOMAIN focus_entities |->
                                [focus_entities[e] EXCEPT
                                    !.entity_stat = calculate_p_value(@, args.shuffles)]]
                         ELSE focus_entities
    /\ global_Qf' = IF Truthy(focus_entities)
                    THEN calculate_p_value(global_Qf, args.shuffles)
                    ELSE global_Qf
    /\ pc' = "p_values"
    /\ UNCHANGED <<args, tables, seed, rng_seed, shuffle, trial, correct_alpha,
                   results, raised, p_values, ret>>

\* lines 1024-1029
AdjustAlpha ==
    /\ pc = "p_values"
    /\ IF Upper(args.correction) = "FDR"
       THEN LET out == fdr_correction_dependent(
                           extract_p_values_from_points_in_time_slices(
                               time_slices, points, focus_points), args.alpha)
            IN  /\ p_values' = out.p_values
                /\ raised' = out.raised
                /\ correct_alpha' = out.ret
                /\ pc' = IF out.raised = None THEN "corrected" ELSE "error"
       ELSE /\ correct_alpha' = args.alpha
            /\ pc' = "corrected"
            /\ UNCHANGED <<p_values, raised>>
    /\ UNCHANGED <<args, tables, seed, rng_seed, study_entities, focus_entities,
                   points, focus_points, time_slices, global_Q, global_Qf, shuffle,
                   trial, results, ret>>

-----------------------------------------------------------------------------
(* QStudyResults and the records it holds.  An OrderedDict is the sequence *)
(* of its [key, value] items in insertion order.  A dict of significant    *)
(* entities or slices holds the same objects as the full dict, so it is    *)
(* the sequence of their keys.                                             *)

DictHas(dict, key) == \E i \in DOMAIN dict : dict[i].key = key

DictGet(dict, key) == dict[CHOOSE i \in DOMAIN dict : dict[i].key = key].value

\* dict[key] = value
DictPut(dict, key, value) ==
    IF DictHas(dict, key)
    THEN [i \in DOMAIN dict |->
            IF dict[i].key = key THEN [key |-> key, value |-> value] ELSE dict[i]]
    ELSE Append(dict, [key |-> key, value |-> value])

\* keys of a dict of shared objects: dict[key] = the object of that key
KeyPut(keys, key) == IF key \in Range(keys) THEN keys ELSE Append(keys, key)

\* sorted(entities.keys()) as the indexes of the entities in key order
RECURSIVE sorted_keys(_, _)
sorted_keys(ents, todo) ==
    IF todo = {} THEN <<>>
    ELSE LET e == CHOOSE e \in todo :
                    \A other \in todo : ents[other].identity <= ents[e].identity
         IN  Append(sorted_keys(ents, todo \ {e}), e)

\* QStudyResults.__init__; normalized_Q and normalized_Qf are attributes that
\* only run_analysis creates: None stands for an attribute that is not set
QStudyResults ==
    [exposure_enabled |-> None, case_weights_enabled |-> None, k |-> None,
     number_permutation_shuffles |-> None, submitted_alpha |-> None,
     adjusted_alpha |-> None, alpha_adjustment_method |-> None,
     Q_case_years |-> <<>>, normalized_Q_case_years |-> 0,
     normalized_Qf_case_years |-> 0, Qf_case_years |-> <<>>,
     cases |-> <<>>, controls |-> <<>>, sig_cases |-> <<>>,
     focus_entities |-> <<>>, sig_focus_entities |-> <<>>,
     time_slices |-> <<>>, sig_time_slices |-> <<>>,
     number_sig_case_points |-> 0, number_sig_focus_points |-> 0,
     dates_lower_k_plus_one |-> <<>>, binom |-> None, seed |-> None,
     normalized_Q |-> None, normalized_Qf |-> None]

\* QStudyBinomialResults.__init__
QStudyBinomialResults ==
    [cases |-> None, dates |-> None, points |-> None, focus |-> None,
     focus_points |-> None]

\* QStudyEntityResult.__init__
QStudyEntityResult(stat) == [points |-> <<>>, sig_points |-> <<>>, stat |-> stat]

\* QStudyTimeSliceResult.__init__
QStudyTimeSliceResult(start_date, end_date, stat, duration) ==
    [points |-> <<>>, sig_points |-> <<>>, focus_points |-> <<>>,
     sig_focus_points |-> <<>>, stat |-> stat, duration_days |-> duration,
     start_date |-> start_date, end_date |-> end_date]

\* QStudyPointResult.__init__; object is the identity of the new object
QStudyPointResult(stat, loc, object) == [loc |-> loc, stat |-> stat, object |-> object]

\* a threshold test that is strict
IsBelow(p_value, alpha) == BoolInt(Less(p_value, alpha))

\* int(p_value <= correct_alpha)
is_significant(p_value, alpha) == BoolInt(Leq(p_value, alpha))

\* statistic / 365.0
case_years(statistic) == Frac(statistic, 365)

\* value / count for a value that is a fraction
divided_by(value, count) == Frac(value[1], value[2] * count)

\* dict[key].field[inner_key] = value
PutIn(dict, key, field, inner_key, value) ==
    [i \in DOMAIN dict |->
        IF dict[i].key = key
        THEN [dict[i] EXCEPT !.value = [@ EXCEPT ![field] = DictPut(@, inner_key, value)]]
        ELSE dict[i]]

RECURSIVE set_individual_results(_, _, _, _, _)
\* lines 1048-1059: for entity_name in sorted(study_entities.keys())
set_individual_results(res, ents, order, alpha, suppress) ==
    IF order = <<>> THEN res
    ELSE LET entity == ents[Head(order)]
             is_sig == is_significant(entity.entity_stat.p_value, alpha)
             stat == <<case_years(entity.entity_stat.statistic),
                       entity.entity_stat.p_value, is_sig>>
             with_entity ==
                IF entity.is_case
                THEN [res EXCEPT
                        !.cases = DictPut(@, entity.identity, QStudyEntityResult(stat)),
                        !.sig_cases = IF is_sig = 1 THEN KeyPut(@, entity.identity) ELSE @]
                ELSE IF ~suppress
                THEN [res EXCEPT
                        !.controls = DictPut(@, entity.identity,
                                             QStudyEntityResult(<<None, None, None>>))]
                ELSE res
         IN  set_individual_results(with_entity, ents, Tail(order), alpha, suppress)

RECURSIVE set_focus_results(_, _, _, _)
\* lines 1062-1069: for focus_name in sorted(focus_entities.keys())
set_focus_results(res, fents, order, alpha) ==
    IF order = <<>> THEN res
    ELSE LET focus == fents[Head(order)]
             is_sig == is_significant(focus.entity_stat.p_value, alpha)
             stat == <<case_years(focus.entity_stat.statistic),
                       focus.entity_stat.p_value, is_sig>>
         IN  set_focus_results(
                [res EXCEPT
                    !.focus_entities = DictPut(@, focus.identity, QStudyEntityResult(stat)),
                    !.sig_focus_entities =
                        IF is_sig = 1 THEN KeyPut(@, focus.identity) ELSE @],
                fents, Tail(order), alpha)

(* The loops over the slices carry the locals of run_analysis in a record  *)
(* [results, qit, qit_bound, objects, raised]: qit is the local variable   *)
(* of that name, qit_bound tells whether it was ever assigned, objects     *)
(* counts the QStudyPointResult objects created so far.                    *)

\* lines 1082-1102: the body of "for study_point in time_slice.points"
study_point_result(locals, time_slice, time_is_sig, study_point, ents, alpha, suppress) ==
    LET res == locals.results
        date == time_slice.date
        entity_id == ents[study_point.owner].identity
        location == <<study_point.x, study_point.y>>
    IN  IF ents[study_point.owner].is_case
        THEN LET point_is_sig == is_significant(study_point.point_stat.p_value, alpha)
                 qit_stat == <<study_point.point_stat.statistic \div time_slice.delta,
                               study_point.point_stat.p_value, point_is_sig>>
                 qit == QStudyPointResult(qit_stat, location, locals.objects + 1)
                 stored == [res EXCEPT
                              !.time_slices = PutIn(@, date, "points", entity_id, qit),
                              !.cases = PutIn(@, entity_id, "points", date, qit),
                              !.number_sig_case_points = @ + point_is_sig]
                 in_slice == IF time_is_sig = 1 /\ point_is_sig = 1
                             THEN [stored EXCEPT
                                     !.time_slices =
                                        PutIn(@, date, "sig_points", entity_id, qit)]
                             ELSE stored
                 in_case == IF point_is_sig = 1 /\ entity_id \in Range(in_slice.sig_cases)
                            THEN [in_slice EXCEPT
                                    !.cases = PutIn(@, entity_id, "sig_points", date, qit)]
                            ELSE in_slice
             IN  [locals EXCEPT !.results = in_case, !.qit = qit, !.qit_bound = TRUE,
                                !.objects = @ + 1]
        ELSE IF ~suppress
        THEN LET qit == <<None, None, None>>
                 stored == [res EXCEPT
                              !.controls =
                                 PutIn(@, entity_id, "points", date,
                                       QStudyPointResult(qit, location, locals.objects + 1)),
                              !.time_slices =
                                 PutIn(@, date, "points", entity_id,
                                       QStudyPointResult(qit, location, locals.objects + 2))]
             IN  [locals EXCEPT !.results = stored, !.qit = qit, !.qit_bound = TRUE,
                                !.objects = @ + 2]
        ELSE locals

\* lines 1105-1118: the body of "for focus_point in time_slice.focus_points";
\* reading qit before any assignment raises UnboundLocalError
focus_point_result(locals, time_slice, time_is_sig, focus_point, fents, alpha) ==
    LET res == locals.results
        date == time_slice.date
        focus_point_is_sig == is_significant(focus_point.point_stat.p_value, alpha)
        qft_stat == <<focus_point.point_stat.statistic \div time_slice.delta,
                      focus_point.point_stat.p_value, focus_point_is_sig>>
        qft == QStudyPointResult(qft_stat, <<focus_point.x, focus_point.y>>,
                                 locals.objects + 1)
        focus_id == fents[focus_point.owner].identity
        stored == [res EXCEPT
                     !.time_slices = PutIn(@, date, "focus_points", focus_id, qft),
                     !.focus_entities = PutIn(@, focus_id, "points", date, qft),
                     !.number_sig_focus_points = @ + focus_point_is_sig]
        to_slice == time_is_sig = 1 /\ focus_point_is_sig = 1
        to_entity == focus_point_is_sig = 1 /\ focus_id \in Range(stored.sig_focus_entities)
        in_slice == IF to_slice
                    THEN [stored EXCEPT
                            !.time_slices =
                                PutIn(@, date, "sig_focus_points", focus_id, locals.qit)]
                    ELSE stored
        in_entity == IF to_entity
                     THEN [in_slice EXCEPT
                             !.focus_entities =
                                PutIn(@, focus_id, "sig_points", date, locals.qit)]
                     ELSE in_slice
    IN  IF (to_slice \/ to_entity) /\ ~locals.qit_bound
        THEN [locals EXCEPT !.results = stored, !.raised = "UnboundLocalError"]
        ELSE [locals EXCEPT !.results = in_entity, !.objects = @ + 1]

RECURSIVE study_point_results(_, _, _, _, _, _, _, _)
\* for study_point in time_slice.points
study_point_results(locals, time_slice, time_is_sig, todo, pts, ents, alpha, suppress) ==
    IF todo = <<>> THEN locals
    ELSE study_point_results(
            study_point_result(locals, time_slice, time_is_sig, pts[Head(todo)], ents,
                               alpha, suppress),
            time_slice, time_is_sig, Tail(todo), pts, ents, alpha, suppress)

RECURSIVE focus_point_results(_, _, _, _, _, _, _)
\* for focus_point in time_slice.focus_points
focus_point_results(locals, time_slice, time_is_sig, todo, fpts, fents, alpha) ==
    IF todo = <<>> \/ ~IsNone(locals.raised) THEN locals
    ELSE focus_point_results(
            focus_point_result(locals, time_slice, time_is_sig, fpts[Head(todo)], fents,
                               alpha),
            time_slice, time_is_sig, Tail(todo), fpts, fents, alpha)

\* len(time_slice.points) <= results.k + 1
at_most_k_plus_one(number_points, k) == number_points <= k + 1

\* lines 1072-1118: the body of "for time_slice in time_slices"
time_slice_result(locals, time_slice, pts, fpts, ents, fents, alpha, suppress, focus_data_path) ==
    LET res == locals.results
        time_is_sig == is_significant(time_slice.Qt.p_value, alpha)
        ts_stat == <<time_slice.Qt.statistic, time_slice.Qt.p_value, time_is_sig>>
        time_result == QStudyTimeSliceResult(time_slice.date, time_slice.end_date, ts_stat,
                                             time_slice.delta)
        stored == [res EXCEPT
                     !.time_slices = DictPut(@, time_slice.date, time_result),
                     !.sig_time_slices =
                        IF time_is_sig = 1 THEN KeyPut(@, time_slice.date) ELSE @,
                     !.dates_lower_k_plus_one =
                        IF at_most_k_plus_one(Len(time_slice.points), res.k)
                        THEN KeyPut(@, time_slice.date) ELSE @]
        after_points == study_point_results([locals EXCEPT !.results = stored], time_slice,
                                            time_is_sig, time_slice.points, pts, ents,
                                            alpha, suppress)
    IN  IF focus_data_path
        THEN focus_point_results(after_points, time_slice, time_is_sig,
                                 time_slice.focus_points, fpts, fents, alpha)
        ELSE after_points

RECURSIVE time_slice_results(_, _, _, _, _, _, _, _, _)
\* for time_slice in time_slices
time_slice_results(locals, todo, pts, fpts, ents, fents, alpha, suppress, focus_data_path) ==
    IF todo = <<>> \/ ~IsNone(locals.raised) THEN locals
    ELSE time_slice_results(
            time_slice_result(locals, Head(todo), pts, fpts, ents, fents, alpha, suppress,
                              focus_data_path),
            Tail(todo), pts, fpts, ents, fents, alpha, suppress, focus_data_path)

RECURSIVE Power(_, _)
Power(base, exponent) == IF exponent = 0 THEN 1 ELSE base * Power(base, exponent - 1)

RECURSIVE Binomial(_, _)
\* the number of ways to choose j of n
Binomial(n, j) ==
    IF j = 0 \/ j = n THEN 1 ELSE Binomial(n - 1, j - 1) + Binomial(n - 1, j)

RECURSIVE BinomialTail(_, _, _)
\* numerator over alpha[2]^total of P(X >= from) for X ~ binom(total, alpha)
BinomialTail(total, from, alpha) ==
    IF from > total THEN 0
    ELSE Binomial(total, from) * Power(alpha[1], from)
            * Power(alpha[2] - alpha[1], total - from)
         + BinomialTail(total, from + 1, alpha)

\* _get_binom_sig: 1 - scipy.stats.binom(total, alpha).cdf(num_sig - 1)
get_binom_sig(total, num_sig, alpha) ==
    LET p_val == Lowest(Frac(BinomialTail(total, IF num_sig < 0 THEN 0 ELSE num_sig, alpha),
                             Power(alpha[2], total)))
    IN  <<num_sig, p_val, IF Leq(p_val, alpha) THEN 1 ELSE 0>>

RECURSIVE SumOfLengths(_, _)
\* sum(len(results.time_slices[date].<field>) for date in results.time_slices)
SumOfLengths(dict, field) ==
    IF dict = <<>> THEN 0
    ELSE Len(Head(dict).value[field]) + SumOfLengths(Tail(dict), field)

\* lines 1123-1135: the (total, num_sig) arguments of the five calls
binom_arguments(res) ==
    [cases |-> <<Len(res.cases), Len(res.sig_cases)>>,
     dates |-> <<Len(res.time_slices), Len(res.sig_time_slices)>>,
     points |-> <<SumOfLengths(res.time_slices, "points"), res.number_sig_case_points>>,
     focus |-> <<Len(res.focus_entities), Len(res.sig_focus_entities)>>,
     focus_points |-> <<SumOfLengths(res.time_slices, "sig_focus_points"),
                        res.number_sig_focus_points>>]

\* lines 1122-1135
binom_results(res, alpha) ==
    LET arguments == binom_arguments(res)
    IN  [cases |-> get_binom_sig(arguments.cases[1], arguments.cases[2], alpha),
         dates |-> get_binom_sig(arguments.dates[1], arguments.dates[2], alpha),
         points |-> get_binom_sig(arguments.points[1], arguments.points[2], alpha),
         focus |-> get_binom_sig(arguments.focus[1], arguments.focus[2], alpha),
         focus_points |-> get_binom_sig(arguments.focus_points[1],
                                        arguments.focus_points[2], alpha)]

\* lines 1031-1137 of run_analysis on the state st of the run: the record
\* [results, raised] of what the lines return or raise
create_results(st, suppress) ==
    LET header == [QStudyResults EXCEPT
                    !.k = st.args.k,
                    !.number_permutation_shuffles = st.args.shuffles,
                    !.seed = st.seed,
                    !.adjusted_alpha = st.correct_alpha,
                    !.submitted_alpha = st.args.alpha,
                    !.alpha_adjustment_method = Upper(st.args.correction),
                    !.exposure_enabled = st.args.use_exposure,
                    !.case_weights_enabled = st.args.use_weights]
        Q_case_years == <<case_years(st.global_Q.statistic), st.global_Q.p_value,
                          is_significant(st.global_Q.p_value, st.correct_alpha)>>
        with_Q == [header EXCEPT
                    !.Q_case_years = Q_case_years,
                    !.normalized_Q = divided_by(Q_case_years[1], Len(st.study_entities))]
        Qf_case_years == <<case_years(st.global_Qf.statistic), st.global_Qf.p_value,
                           is_significant(st.global_Qf.p_value, st.correct_alpha)>>
        with_Qf == IF Truthy(st.focus_entities)
                   THEN [with_Q EXCEPT
                           !.Qf_case_years = Qf_case_years,
                           !.normalized_Qf = divided_by(Qf_case_years[1],
                                                        Len(st.focus_entities))]
                   ELSE with_Q
        with_entities ==
            set_individual_results(with_Qf, st.study_entities,
                                   sorted_keys(st.study_entities, DOMAIN st.study_entities),
                                   st.correct_alpha, suppress)
        with_focus ==
            IF st.focus_data_path
            THEN set_focus_results(with_entities, st.focus_entities,
                                   sorted_keys(st.focus_entities, DOMAIN st.focus_entities),
                                   st.correct_alpha)
            ELSE with_entities
        after_slices ==
            time_slice_results([results |-> with_focus, qit |-> None, qit_bound |-> FALSE,
                                objects |-> 0, raised |-> None],
                               st.time_slices, st.points, st.focus_points,
                               st.study_entities, st.focus_entities, st.correct_alpha,
                               suppress, st.focus_data_path)
        with_binom ==
            IF Upper(st.args.correction) = "BINOM"
            THEN [after_slices.results EXCEPT
                    !.binom = binom_results(after_slices.results, st.args.alpha)]
            ELSE after_slices.results
    IN  IF ~IsNone(after_slices.raised)
        THEN [results |-> None, raised |-> after_slices.raised]
        ELSE [results |-> with_binom, raised |-> None]

\* the state of the run that lines 1031-1137 read
RunState ==
    [args |-> args, seed |-> seed, correct_alpha |-> correct_alpha,
     global_Q |-> global_Q, global_Qf |-> global_Qf,
     study_entities |-> study_entities, focus_entities |-> focus_entities,
     points |-> points, focus_points |-> focus_points, time_slices |-> time_slices,
     focus_data_path |-> ~IsNone(tables.focus)]

\* lines 1031-1137: the results object
CreateResults ==
    /\ pc = "corrected"
    /\ LET outcome == create_results(RunState, args.suppress_controls)
       IN  /\ results' = outcome.results
           /\ raised' = outcome.raised
           /\ pc' = IF IsNone(outcome.raised) THEN "done" ELSE "error"
    /\ UNCHANGED <<args, tables, seed, rng_seed, study_entities, focus_entities,
                   points, focus_points, time_slices, global_Q, global_Qf, shuffle,
                   trial, correct_alpha, p_values, ret>>

Next ==
    \/ SetSeed
    \/ LoadAndSlice
    \/ SortTimeSlices
    \/ FindTimeSliceDeltas
    \/ RemoveEmptyTimeSlices
    \/ CacheNeighbors
    \/ CalculateObserved
    \/ ShuffleFlags
    \/ CalculateReference
    \/ CalculatePValues
    \/ AdjustAlpha
    \/ CreateResults

Spec == Init /\ [][Next]_vars

-----------------------------------------------------------------------------
(* Properties of run_analysis                                              *)

\* the true case status of the owner of study point p
OwnerIsCase(p) == study_entities[points[p].owner].is_case

\* the positions of the run at which no shuffle trial is executing
OutsideTrials ==
    pc \in {"sliced", "sorted", "deltas", "pruned", "cached", "observed",
            "p_values", "corrected", "done"}

\* the number of true cases of the run
NumberOfCases == Cardinality({e \in DOMAIN study_entities : study_entities[e].is_case})

\* the statement of C2 as written: every label is the owner's true status
\* whenever no trial is executing
C2_TempStatusIsTrueStatus ==
    OutsideTrials => \A p \in DOMAIN points : points[p].temp_case_status = OwnerIsCase(p)

\* C2: before the first trial every study point's temp_case_status is its
\* owner's true is_case; once a trial has completed, the labels are the ones
\* its shuffle wrote and stay until the next shuffle overwrites them: the
\* points of one entity share one label and exactly as many entities are
\* labelled case as there are true cases.
C2_TempStatusOutsideTrials ==
    /\ (OutsideTrials /\ shuffle = 0) =>
            \A p \in DOMAIN points : points[p].temp_case_status = OwnerIsCase(p)
    /\ (OutsideTrials /\ shuffle >= 1) =>
            \E labelled \in SUBSET DOMAIN study_entities :
                /\ Cardinality(labelled) = NumberOfCases
                /\ \A e \in DOMAIN study_entities :
                    \A i \in DOMAIN study_entities[e].points :
                        points[study_entities[e].points[i]].temp_case_status
                            = (e \in labelled)

\* between the two trials, a control with several points labelled case
C2_Witness ==
    /\ pc = "observed" /\ shuffle = 1
    /\ \E e \in DOMAIN study_entities :
        /\ ~study_entities[e].is_case
        /\ Len(study_entities[e].points) >= 2
        /\ \A i \in DOMAIN study_entities[e].points :
                points[study_entities[e].points[i]].temp_case_status

\* the observed statistics exist
ObservedDone == pc \in {"observed", "shuffled", "p_values", "corrected", "done"}

\* the cached neighbours of p owned by a true case and exposed
TrueCaseExposedNeighbors(p) ==
    Cardinality({i \in DOMAIN points[p].neighbors :
                    /\ OwnerIsCase(points[p].neighbors[i])
                    /\ points[points[p].neighbors[i]].exposed})

\* C3: the observed Q_it of a study point of a slice of duration delta is
\* (its cached neighbours owned by a true case and exposed) x delta when its
\* owner is a case and it is exposed, 0 otherwise; when it is computed no
\* shuffle has relabelled a point.
C3_ObservedQit ==
    /\ pc = "cached" =>
            \A p \in DOMAIN points : points[p].temp_case_status = OwnerIsCase(p)
    /\ ObservedDone =>
            \A t \in DOMAIN time_slices : \A i \in DOMAIN time_slices[t].points :
                LET p == time_slices[t].points[i]
                IN  points[p].point_stat.statistic =
                        IF OwnerIsCase(p) /\ points[p].exposed
                        THEN TrueCaseExposedNeighbors(p) * time_slices[t].delta
                        ELSE 0

\* an exposed case point with a positive Q_it in a slice of several days, one
\* of whose neighbours is a case that is not exposed
C3_Witness ==
    /\ ObservedDone
    /\ \E t \in DOMAIN time_slices : \E i \in DOMAIN time_slices[t].points :
        LET p == time_slices[t].points[i]
        IN  /\ time_slices[t].delta > 1
            /\ points[p].point_stat.statistic = time_slices[t].delta
            /\ \E j \in DOMAIN points[p].neighbors :
                    /\ OwnerIsCase(points[p].neighbors[j])
                    /\ ~points[points[p].neighbors[j]].exposed

\* C4: the observed Q_t of a retained slice is the sum of its points' Q_it
\* integer-divided by delta without remainder: Q_t x delta is that sum, and
\* Q_t is the sum over the exposed case-owned points of the slice of their
\* counts of exposed case neighbours.
C4_ObservedQt ==
    ObservedDone =>
        \A t \in DOMAIN time_slices :
            LET slice_points == time_slices[t].points
            IN  /\ time_slices[t].delta > 0
                /\ time_slices[t].Qt.statistic * time_slices[t].delta =
                        SumSeq([i \in 1..Len(slice_points) |->
                                    points[slice_points[i]].point_stat.statistic])
                /\ time_slices[t].Qt.statistic =
                        SumSeq([i \in 1..Len(slice_points) |->
                                    IF OwnerIsCase(slice_points[i])
                                       /\ points[slice_points[i]].exposed
                                    THEN TrueCaseExposedNeighbors(slice_points[i])
                                    ELSE 0])

\* a slice of several days with a positive Q_t
C4_Witness ==
    /\ ObservedDone
    /\ \E t \in DOMAIN time_slices :
        /\ time_slices[t].delta > 2
        /\ time_slices[t].Qt.statistic >= 2

\* C6: the observed global Q is the sum of Q_i over the case entities and
\* also the sum over the retained slices of Q_t x delta.
C6_GlobalQ ==
    ObservedDone =>
        /\ global_Q.statistic =
                SumSeq([e \in 1..Len(study_entities) |->
                            IF study_entities[e].is_case
                            THEN study_entities[e].entity_stat.statistic ELSE 0])
        /\ global_Q.statistic =
                SumSeq([t \in 1..Len(time_slices) |->
                            time_slices[t].Qt.statistic * time_slices[t].delta])

\* two case entities and two retained slices of different durations
\* contribute to a positive global Q, next to a control with points
C6_Witness ==
    /\ ObservedDone
    /\ \E e1, e2 \in DOMAIN study_entities :
        /\ e1 # e2
        /\ study_entities[e1].is_case /\ study_entities[e1].entity_stat.statistic > 0
        /\ study_entities[e2].is_case /\ study_entities[e2].entity_stat.statistic > 0
        /\ study_entities[e1].entity_stat.statistic
                # study_entities[e2].entity_stat.statistic
    /\ \E t1, t2 \in DOMAIN time_slices :
        /\ time_slices[t1].delta # time_slices[t2].delta
        /\ time_slices[t1].Qt.statistic > 0 /\ time_slices[t2].Qt.statistic > 0
    /\ \E e \in DOMAIN study_entities :
        ~study_entities[e].is_case /\ study_entities[e].points # <<>>

\* the counter of a statistic after a trial whose reference value is given:
\* one more when the reference reaches the observed value, unchanged otherwise
CountedOnce(before, after, reference) ==
    after.shuffles_passed =
        IF reference >= before.statistic THEN before.shuffles_passed + 1
        ELSE before.shuffles_passed

\* C7: in each shuffle trial the shuffles_passed of every statistic (study
\* point, focus point, time slice, study entity, focus entity, global Q,
\* global Qf) grows by exactly 1 when the reference value of the trial is
\* greater than or equal to the observed value, and is unchanged otherwise.
C7_ShufflesPassed ==
    [][pc = "shuffled" =>
        /\ \A t \in DOMAIN time_slices :
            /\ CountedOnce(time_slices[t].Qt, time_slices'[t].Qt,
                           trial'.time_slices[t])
            /\ \A i \in DOMAIN time_slices[t].points :
                LET p == time_slices[t].points[i]
                IN  CountedOnce(points[p].point_stat, points'[p].point_stat,
                                points'[p].reference_stat)
            /\ \A i \in DOMAIN time_slices[t].focus_points :
                LET f == time_slices[t].focus_points[i]
                IN  CountedOnce(focus_points[f].point_stat, focus_points'[f].point_stat,
                                focus_points'[f].reference_stat)
        /\ \A e \in DOMAIN study_entities :
            CountedOnce(study_entities[e].entity_stat, study_entities'[e].entity_stat,
                        trial'.study_entities[e])
        /\ CountedOnce(global_Q, global_Q', trial'.global_Q)
        /\ Truthy(focus_entities) =>
            /\ \A e \in DOMAIN focus_entities :
                CountedOnce(focus_entities[e].entity_stat, focus_entities'[e].entity_stat,
                            trial'.focus_entities[e])
            /\ CountedOnce(global_Qf, global_Qf', trial'.global_Qf)
    ]_vars

\* after the first trial: a slice whose reference equalled its observed Q_t
\* has passed, an entity whose reference stayed below its Q_i has not, and a
\* focus point has passed
C7_Witness ==
    /\ pc = "observed" /\ shuffle = 1
    /\ \E t \in DOMAIN time_slices :
        /\ time_slices[t].Qt.statistic > 0
        /\ trial.time_slices[t] = time_slices[t].Qt.statistic
        /\ time_slices[t].Qt.shuffles_passed = 1
    /\ \E e \in DOMAIN study_entities :
        /\ trial.study_entities[e] < study_entities[e].entity_stat.statistic
        /\ study_entities[e].entity_stat.shuffles_passed = 0
    /\ \E f \in DOMAIN focus_points :
        /\ focus_points[f].point_stat.shuffles_passed = 1
        /\ focus_points[f].reference_stat = focus_points[f].point_stat.statistic
        /\ focus_points[f].reference_stat > 0

\* P holds of every statistic of the run: the retained slices, their study
\* points and focus points, the study entities, global Q once it exists,
\* and with focus data the focus entities and global Qf
EveryStatistic(P(_)) ==
    /\ \A t \in DOMAIN time_slices :
        /\ P(time_slices[t].Qt)
        /\ \A i \in DOMAIN time_slices[t].points :
                P(points[time_slices[t].points[i]].point_stat)
        /\ \A i \in DOMAIN time_slices[t].focus_points :
                P(focus_points[time_slices[t].focus_points[i]].point_stat)
    /\ \A e \in DOMAIN study_entities : P(study_entities[e].entity_stat)
    /\ ~IsNone(global_Q) => P(global_Q)
    /\ Truthy(focus_entities) =>
        /\ \A e \in DOMAIN focus_entities : P(focus_entities[e].entity_stat)
        /\ ~IsNone(global_Qf) => P(global_Qf)

PValueUnset(stat) == IsNone(stat.p_value)

\* p_value is (shuffles_passed + 1) / (S + 1)
PValueFinal(stat) ==
    /\ ~IsNone(stat.p_value)
    /\ stat.p_value[1] * (args.shuffles + 1) = (stat.shuffles_passed + 1) * stat.p_value[2]

\* C8: the p_value of every statistic is None during the observed phase and
\* during all S trials; it is set after the last trial, to
\* (shuffles_passed + 1) / (S + 1) of the final counter.
C8_PValues ==
    /\ pc \in {"sliced", "sorted", "deltas", "pruned", "cached", "observed", "shuffled"}
            => EveryStatistic(PValueUnset)
    /\ pc \in {"p_values", "corrected", "done"}
            => shuffle = args.shuffles /\ EveryStatistic(PValueFinal)

\* a finished run with a statistic that passed no trial and one that passed
\* every trial
C8_Witness ==
    /\ pc = "done"
    /\ global_Q.shuffles_passed = 0 /\ global_Q.p_value = <<1, NumShuffles + 1>>
    /\ \E e \in DOMAIN study_entities :
        /\ study_entities[e].entity_stat.shuffles_passed = NumShuffles
        /\ study_entities[e].entity_stat.p_value = <<NumShuffles + 1, NumShuffles + 1>>

\* C9: a seed supplied by the caller, 0 included, is the value that seeds the
\* generator and the seed reported in the results.
C9_SuppliedSeedIsUsed ==
    (~IsNone(args.seed) /\ pc \notin {"constructed", "start"}) =>
        /\ rng_seed = args.seed
        /\ pc = "done" => results.seed = args.seed

\* what holds of the seed: a supplied seed other than 0 is used and
\* reported, and the reported seed is always the one that seeded the generator
C9_NonZeroSeedIsUsed ==
    /\ (~IsNone(args.seed) /\ ~NotSeed(args.seed) /\ pc \notin {"constructed", "start"}) =>
            rng_seed = args.seed
    /\ pc = "done" => results.seed = rng_seed

-----------------------------------------------------------------------------
(* The results object of a finished run *)

Returned == pc = "done"

\* P holds of every (statistic, p-value, flag) triple of the full collections
\* of the results res; the triples of control records hold None and are
\* passed to P as they are
EveryResultStatistic(res, P(_)) ==
    /\ P(res.Q_case_years)
    /\ res.Qf_case_years # <<>> => P(res.Qf_case_years)
    /\ \A i \in DOMAIN res.cases :
        /\ P(res.cases[i].value.stat)
        /\ \A j \in DOMAIN res.cases[i].value.points :
                P(res.cases[i].value.points[j].value.stat)
    /\ \A i \in DOMAIN res.focus_entities :
        /\ P(res.focus_entities[i].value.stat)
        /\ \A j \in DOMAIN res.focus_entities[i].value.points :
                P(res.focus_entities[i].value.points[j].value.stat)
    /\ \A i \in DOMAIN res.time_slices :
        /\ P(res.time_slices[i].value.stat)
        /\ \A j \in DOMAIN res.time_slices[i].value.points :
                P(res.time_slices[i].value.points[j].value.stat)
        /\ \A j \in DOMAIN res.time_slices[i].value.focus_points :
                P(res.time_slices[i].value.focus_points[j].value.stat)

FlagFollowsAdjustedAlpha(stat) ==
    IsNone(stat[2]) \/ (stat[3] = 1 <=> Leq(stat[2], results.adjusted_alpha))

NotFlagged(stat) == IsNone(stat[2]) \/ stat[3] = 0

FlaggedAtThreshold(stat) ==
    ~IsNone(stat[2]) /\ stat[3] = 1 /\ Leq(results.adjusted_alpha, stat[2])

\* the p-values the results report for the slices and for global Q are the
\* ones the run computed
ReportedPValues ==
    /\ results.Q_case_years[2] = global_Q.p_value
    /\ \A t \in DOMAIN time_slices :
            DictGet(results.time_slices, time_slices[t].date).stat[2]
                = time_slices[t].Qt.p_value

\* C12: unless the correction is FDR the adjusted alpha of the results is
\* the submitted alpha; in every mode each significance flag of the results
\* is 1 exactly when the p-value beside it is <= the adjusted alpha; an FDR
\* threshold of 0 flags nothing.
C12_AdjustedAlphaAndFlags ==
    Returned =>
        /\ Upper(args.correction) # "FDR" => results.adjusted_alpha = args.alpha
        /\ results.submitted_alpha = args.alpha
        /\ ReportedPValues
        /\ EveryResultStatistic(results, FlagFollowsAdjustedAlpha)
        /\ results.adjusted_alpha[1] = 0 => EveryResultStatistic(results, NotFlagged)

\* a run without correction returned a statistic whose p-value equals alpha,
\* flagged, beside a statistic that is not flagged
C12_Witness ==
    /\ Returned
    /\ Upper(args.correction) = "NONE"
    /\ ~EveryResultStatistic(results, LAMBDA stat : ~FlaggedAtThreshold(stat))
    /\ ~EveryResultStatistic(results, LAMBDA stat : IsNone(stat[2]) \/ stat[3] = 1)

\* the (slice, key) positions of the point records of the given field of
\* the slices of res
PointPositions(res, field) ==
    UNION { { <<i, j>> : j \in DOMAIN res.time_slices[i].value[field] }
            : i \in DOMAIN res.time_slices }

PointStatAt(res, field, position) ==
    res.time_slices[position[1]].value[field][position[2]].value.stat

\* the per-slice point statistics of res: the records that hold a p-value
NumberOfStatistics(res, field) ==
    Cardinality({pos \in PointPositions(res, field) :
                    ~IsNone(PointStatAt(res, field, pos)[2])})

NumberFlagged(res, field) ==
    Cardinality({pos \in PointPositions(res, field) :
                    /\ ~IsNone(PointStatAt(res, field, pos)[2])
                    /\ PointStatAt(res, field, pos)[3] = 1})

EntitiesFlagged(dict) == Cardinality({i \in DOMAIN dict : dict[i].value.stat[3] = 1})

BinomReturned == Returned /\ Upper(args.correction) = "BINOM"

\* C13: with the binomial correction each of the five secondary tests gets
\* total = the number of statistics of its category in the results and
\* count = the number of those flagged significant, so count <= total, and
\* its outcome is that of _get_binom_sig on these two numbers.
C13_BinomTotalsAndCounts ==
    BinomReturned =>
        LET arguments == binom_arguments(results)
            expected ==
                [cases |-> <<Len(results.cases), EntitiesFlagged(results.cases)>>,
                 dates |-> <<Len(results.time_slices),
                             EntitiesFlagged(results.time_slices)>>,
                 points |-> <<NumberOfStatistics(results, "points"),
                              NumberFlagged(results, "points")>>,
                 focus |-> <<Len(results.focus_entities),
                             EntitiesFlagged(results.focus_entities)>>,
                 focus_points |-> <<NumberOfStatistics(results, "focus_points"),
                                    NumberFlagged(results, "focus_points")>>]
        IN  \A category \in DOMAIN expected :
                /\ arguments[category] = expected[category]
                /\ arguments[category][2] <= arguments[category][1]
                /\ results.binom[category]
                    = get_binom_sig(expected[category][1], expected[category][2],
                                    args.alpha)

\* the part of C13 that holds: the counts of the five tests, and the totals
\* of the tests of the cases, the slices and the focus entities
C13_CountsAndEntityTotals ==
    BinomReturned =>
        LET arguments == binom_arguments(results)
        IN  /\ arguments.cases = <<Len(results.cases), EntitiesFlagged(results.cases)>>
            /\ arguments.dates = <<Len(results.time_slices),
                                   EntitiesFlagged(results.time_slices)>>
            /\ arguments.focus = <<Len(results.focus_entities),
                                   EntitiesFlagged(results.focus_entities)>>
            /\ arguments.points[2] = NumberFlagged(results, "points")
            /\ arguments.focus_points[2] = NumberFlagged(results, "focus_points")
            /\ \A category \in DOMAIN arguments :
                results.binom[category]
                    = get_binom_sig(arguments[category][1], arguments[category][2],
                                    args.alpha)

\* a significant focus point in a slice that is not significant: the test of
\* the focus points counts it but its total does not
C13_CountAboveTotal ==
    /\ BinomReturned
    /\ binom_arguments(results).focus_points[2] > binom_arguments(results).focus_points[1]

\* the positions of a run whose neighbour caching has returned
PastCaching == pc \in {"cached", "observed", "shuffled", "p_values", "corrected", "done"}

NothingCached ==
    /\ \A p \in DOMAIN points : points[p].neighbors = <<>>
    /\ \A f \in DOMAIN focus_points : focus_points[f].neighbors = <<>>

\* C14: a neighbour-cache request with k < 1 fails with an input error and
\* caches nothing, on one slice and for a whole run, however many points the
\* slices hold.
C14_KBelowOneFails ==
    args.k < 1 =>
        /\ ~PastCaching
        /\ pc = "error" => raised = "ValueError" /\ NothingCached
        /\ pc = "pruned" =>
            \A t \in DOMAIN time_slices :
                \A out \in cache_nearest_neighbors(
                                [ents |-> study_entities, fents |-> focus_entities,
                                 pts |-> points, fpts |-> focus_points],
                                time_slices[t], args.k) :
                    out.raised = "ValueError" /\ out.st.pts = points

\* the part of C14 that holds: the request on one slice fails, and the request
\* for the run fails when some slice holds two points or more (or none is left)
C14_KBelowOneFailsOnLargerSlices ==
    args.k < 1 =>
        /\ (PastCaching => \A t \in DOMAIN time_slices : Len(time_slices[t].points) <= 1)
        /\ pc = "error" => raised = "ValueError" /\ NothingCached
        /\ pc = "pruned" =>
            \A t \in DOMAIN time_slices :
                \A out \in cache_nearest_neighbors(
                                [ents |-> study_entities, fents |-> focus_entities,
                                 pts |-> points, fpts |-> focus_points],
                                time_slices[t], args.k) :
                    out.raised = "ValueError" /\ out.st.pts = points

\* a run with k = 0 whose slices hold one point each returned results
C14_RunWithKZeroReturns ==
    /\ args.k < 1
    /\ Returned
    /\ time_slices # <<>>

\* the positions of a run after the pruning of the empty slices
PastPruning == pc \in {"pruned", "error"} \/ PastCaching

\* C15: when no time slice is left after pruning the run aborts with an input
\* error at the neighbour caching: no observed statistic is computed, no
\* shuffle is performed and no results object is produced.
C15_NoSliceAborts ==
    (PastPruning /\ time_slices = <<>>) =>
        /\ ~PastCaching
        /\ pc = "error" => raised = "ValueError"
        /\ IsNone(global_Q) /\ IsNone(global_Qf)
        /\ \A e \in DOMAIN study_entities :
                IsNone(study_entities[e].entity_stat.statistic)
        /\ shuffle = 0 /\ IsNone(trial)
        /\ IsNone(results)

\* a run whose slices were all pruned has aborted
C15_Witness ==
    /\ pc = "error"
    /\ time_slices = <<>>
    /\ raised = "ValueError"
    /\ args.k >= 1

\* equality of two fractions
SameValue(a, b) == a[1] * b[2] = b[1] * a[2]

\* C16: the normalized global Q of the results is global Q in case-years
\* divided by the number of case entities, and the normalized global Qf is
\* global Qf in case-years divided by the number of focus entities.
C16_NormalizedByCasesAndFocusEntities ==
    Returned =>
        /\ NumberOfCases > 0 =>
            /\ ~IsNone(results.normalized_Q)
            /\ SameValue(results.normalized_Q,
                         divided_by(results.Q_case_years[1], NumberOfCases))
        /\ Truthy(focus_entities) =>
            /\ ~IsNone(results.normalized_Qf)
            /\ SameValue(results.normalized_Qf,
                         divided_by(results.Qf_case_years[1], Len(focus_entities)))

\* what holds instead: the divisor of global Q is the number of study
\* entities, cases and controls alike; the part on Qf is as stated
C16_NormalizedByAllEntities ==
    Returned =>
        /\ SameValue(results.normalized_Q,
                     divided_by(results.Q_case_years[1], Len(study_entities)))
        /\ SameValue(results.Q_case_years[1], Frac(global_Q.statistic, 365))
        /\ results.normalized_Q_case_years = 0
        /\ Truthy(focus_entities) =>
            /\ SameValue(results.normalized_Qf,
                         divided_by(results.Qf_case_years[1], Len(focus_entities)))
            /\ SameValue(results.Qf_case_years[1], Frac(global_Qf.statistic, 365))

\* a run with a control and a positive global Q returned
C16_PositiveQWithControls ==
    /\ Returned
    /\ results.Q_case_years[1][1] > 0
    /\ NumberOfCases < Len(study_entities)

\* the dates of the retained slices whose number of study points satisfies P
DatesWhere(P(_)) ==
    {time_slices[t].date : t \in {u \in DOMAIN time_slices : P(Len(time_slices[u].points))}}

\* C17: dates_lower_k_plus_one holds exactly the retained slices with fewer
\* than k + 1 study points, and no slice with k + 1 points or more.
C17_DatesLowerThanKPlusOne ==
    Returned =>
        Range(results.dates_lower_k_plus_one) = DatesWhere(LAMBDA n : n < args.k + 1)

\* what holds instead: the slices with at most k + 1 study points
C17_DatesAtMostKPlusOne ==
    Returned =>
        /\ Range(results.dates_lower_k_plus_one) = DatesWhere(LAMBDA n : n <= args.k + 1)
        /\ \A i \in DOMAIN results.dates_lower_k_plus_one :
                DictHas(results.time_slices, results.dates_lower_k_plus_one[i])

\* a returned run with a slice of exactly k + 1 points, each of which has
\* its k neighbours, and a slice of more points
C17_SliceOfKPlusOnePoints ==
    /\ Returned
    /\ \E t \in DOMAIN time_slices :
        /\ Len(time_slices[t].points) = args.k + 1
        /\ \A i \in DOMAIN time_slices[t].points :
                Len(points[time_slices[t].points[i]].neighbors) = args.k
        /\ time_slices[t].date \in Range(results.dates_lower_k_plus_one)
    /\ \E t \in DOMAIN time_slices : Len(time_slices[t].points) > args.k + 1

\* the value is the tuple (None, None, None) and not a QStudyPointResult
IsBareTuple(value) == ToString(value) = ToString(<<None, None, None>>)

\* the two values of a points collection are the same object
SameObject(a, b) ==
    IF IsBareTuple(a) \/ IsBareTuple(b) THEN IsBareTuple(a) /\ IsBareTuple(b)
    ELSE a.object = b.object

IsFlagged(stat) == ~IsNone(stat[2]) /\ stat[3] = 1

DictKeys(dict) == {dict[i].key : i \in DOMAIN dict}

FlaggedKeys(dict) == {dict[i].key : i \in {j \in DOMAIN dict : IsFlagged(dict[j].value.stat)}}

\* sig is exactly the flagged part of full, entry for entry
IsSignificantSubset(full, sig) ==
    /\ DictKeys(sig) = FlaggedKeys(full)
    /\ \A i \in DOMAIN sig :
        DictHas(full, sig[i].key) => SameObject(sig[i].value, DictGet(full, sig[i].key))

\* C18: every significant-only collection is exactly the significant subset
\* of its full collection: sig_points and sig_focus_points of each slice,
\* sig_points of each case and of each focus entity; each entry is the record
\* the full collection holds for that point.
C18_SigCollectionsAreSubsets ==
    Returned =>
        /\ \A i \in DOMAIN results.time_slices :
            /\ IsSignificantSubset(results.time_slices[i].value.points,
                                   results.time_slices[i].value.sig_points)
            /\ IsSignificantSubset(results.time_slices[i].value.focus_points,
                                   results.time_slices[i].value.sig_focus_points)
        /\ \A i \in DOMAIN results.cases :
            IsSignificantSubset(results.cases[i].value.points,
                                results.cases[i].value.sig_points)
        /\ \A i \in DOMAIN results.focus_entities :
            IsSignificantSubset(results.focus_entities[i].value.points,
                                results.focus_entities[i].value.sig_points)

\* what holds instead: a sig collection is empty unless its own slice or
\* entity is significant, and then its keys are the flagged keys; the entries
\* of the case collections are the records of the full collections
C18_SigCollectionsOfSignificantParents ==
    Returned =>
        /\ \A i \in DOMAIN results.time_slices :
            LET slice == results.time_slices[i].value
                parent == IsFlagged(slice.stat)
            IN  /\ DictKeys(slice.sig_points)
                    = IF parent THEN FlaggedKeys(slice.points) ELSE {}
                /\ DictKeys(slice.sig_focus_points)
                    = IF parent THEN FlaggedKeys(slice.focus_points) ELSE {}
                /\ \A j \in DOMAIN slice.sig_points :
                    SameObject(slice.sig_points[j].value,
                               DictGet(slice.points, slice.sig_points[j].key))
        /\ \A i \in DOMAIN results.cases :
            LET case == results.cases[i].value
            IN  /\ DictKeys(case.sig_points)
                    = IF IsFlagged(case.stat) THEN FlaggedKeys(case.points) ELSE {}
                /\ \A j \in DOMAIN case.sig_points :
                    SameObject(case.sig_points[j].value,
                               DictGet(case.points, case.sig_points[j].key))
        /\ \A i \in DOMAIN results.focus_entities :
            LET focus == results.focus_entities[i].value
            IN  DictKeys(focus.sig_points)
                    = IF IsFlagged(focus.stat) THEN FlaggedKeys(focus.points) ELSE {}

\* a significant case point of a slice that is not significant is missing
\* from the slice's sig_points
C18_SignificantPointOfPlainSlice ==
    /\ Returned
    /\ \E i \in DOMAIN results.time_slices :
        /\ ~IsFlagged(results.time_slices[i].value.stat)
        /\ FlaggedKeys(results.time_slices[i].value.points) # {}
        /\ results.time_slices[i].value.sig_points = <<>>

\* an entry of a focus sig collection is not the focus point's record
C18_FocusEntryIsAnotherRecord ==
    /\ Returned
    /\ \E i \in DOMAIN results.focus_entities :
        \E j \in DOMAIN results.focus_entities[i].value.sig_points :
            LET entry == results.focus_entities[i].value.sig_points[j]
            IN  ~SameObject(entry.value,
                            DictGet(results.focus_entities[i].value.points, entry.key))

\* the statistic triple an entry of a points collection reports; an entry
\* that is the bare tuple (None, None, None) is passed as it is
ValueStat(value) == IF IsBareTuple(value) THEN value ELSE value.stat

\* two statistic triples report the same values
SameStat(a, b) ==
    IF IsNone(a[2]) \/ IsNone(b[2]) THEN IsNone(a[2]) /\ IsNone(b[2]) ELSE a = b

\* two sequences of (key, statistic triple) report the same values
SamePointStats(a, b) ==
    /\ Len(a) = Len(b)
    /\ \A i \in DOMAIN a : a[i][1] = b[i][1] /\ SameStat(a[i][2], b[i][2])

\* the keys and the statistic triples of a points collection
PointStats(dict) == [i \in DOMAIN dict |-> <<dict[i].key, ValueStat(dict[i].value)>>]

\* the entries of a points collection that hold a p-value
RECURSIVE CasePointStats(_)
CasePointStats(dict) ==
    IF dict = <<>> THEN <<>>
    ELSE (IF IsNone(Head(dict).value.stat[2]) THEN <<>>
          ELSE << <<Head(dict).key, Head(dict).value.stat>> >>)
         \o CasePointStats(Tail(dict))

\* the statistics, p-values and flags of the entities of a collection
EntityStats(dict) ==
    [i \in DOMAIN dict |->
        <<dict[i].key, dict[i].value.stat, PointStats(dict[i].value.points)>>]

EntitySigStats(dict) ==
    [i \in DOMAIN dict |-> <<dict[i].key, PointStats(dict[i].value.sig_points)>>]

\* what the results res report without the control records and without
\* the sig collections of the focus levels
CaseAndGlobalStats(res) ==
    [Q |-> res.Q_case_years, Qf |-> res.Qf_case_years,
     normalized_Q |-> res.normalized_Q, normalized_Qf |-> res.normalized_Qf,
     adjusted_alpha |-> res.adjusted_alpha,
     cases |-> EntityStats(res.cases), case_sig_points |-> EntitySigStats(res.cases),
     sig_cases |-> res.sig_cases,
     focus_entities |-> EntityStats(res.focus_entities),
     sig_focus_entities |-> res.sig_focus_entities,
     time_slices |-> [i \in DOMAIN res.time_slices |->
                        <<res.time_slices[i].key, res.time_slices[i].value.stat,
                          CasePointStats(res.time_slices[i].value.points),
                          PointStats(res.time_slices[i].value.sig_points),
                          PointStats(res.time_slices[i].value.focus_points)>>],
     sig_time_slices |-> res.sig_time_slices,
     number_sig_case_points |-> res.number_sig_case_points,
     number_sig_focus_points |-> res.number_sig_focus_points]

\* the sig collections of the focus levels of the results a and b report
\* the same values
SameFocusSigStats(a, b) ==
    /\ \A i \in DOMAIN a.focus_entities :
            SamePointStats(PointStats(a.focus_entities[i].value.sig_points),
                           PointStats(b.focus_entities[i].value.sig_points))
    /\ \A i \in DOMAIN a.time_slices :
            SamePointStats(PointStats(a.time_slices[i].value.sig_focus_points),
                           PointStats(b.time_slices[i].value.sig_focus_points))

\* the run of the current data, options and seed with control output
WithControls == create_results(RunState, FALSE)

\* the same run with suppress_controls set
WithoutControls == create_results(RunState, TRUE)

\* the results of the state are those of the run the arguments ask for
ResultsOfThisRun ==
    results = IF args.suppress_controls THEN WithoutControls.results
              ELSE WithControls.results

\* C19: two runs that differ only in suppress_controls report the same case,
\* time-slice, focus and global statistics, p-values and flags, and the same
\* inputs and outcomes of the five binomial tests.
C19_SuppressControlsHidesOnlyControls ==
    Returned =>
        /\ ResultsOfThisRun
        /\ IsNone(WithControls.raised) /\ IsNone(WithoutControls.raised)
        /\ CaseAndGlobalStats(WithControls.results)
            = CaseAndGlobalStats(WithoutControls.results)
        /\ SameFocusSigStats(WithControls.results, WithoutControls.results)
        /\ binom_arguments(WithControls.results) = binom_arguments(WithoutControls.results)
        /\ WithControls.results.binom = WithoutControls.results.binom

\* what holds instead: everything but the sig collections of the focus
\* levels and the test of the per-slice points agrees
C19_CaseAndGlobalStatisticsAgree ==
    Returned =>
        /\ ResultsOfThisRun
        /\ IsNone(WithControls.raised) /\ IsNone(WithoutControls.raised)
        /\ CaseAndGlobalStats(WithControls.results)
            = CaseAndGlobalStats(WithoutControls.results)
        /\ \A category \in {"cases", "dates", "focus", "focus_points"} :
            /\ binom_arguments(WithControls.results)[category]
                = binom_arguments(WithoutControls.results)[category]
            /\ Upper(args.correction) = "BINOM" =>
                WithControls.results.binom[category]
                    = WithoutControls.results.binom[category]
        /\ binom_arguments(WithControls.results).points[2]
            = binom_arguments(WithoutControls.results).points[2]

\* a run without control output whose test of the per-slice points has
\* another total, and another outcome, than the run with control output
C19_BinomPointsDiffer ==
    /\ Returned
    /\ args.suppress_controls
    /\ Upper(args.correction) = "BINOM"
    /\ binom_arguments(WithControls.results).points[1]
        > binom_arguments(WithoutControls.results).points[1]
    /\ WithControls.results.binom.points[3] # results.binom.points[3]

\* a run without control output whose focus sig collections differ from
\* those of the run with control output
C19_FocusSigDiffer ==
    /\ Returned
    /\ args.suppress_controls
    /\ ~SameFocusSigStats(WithControls.results, WithoutControls.results)

-----------------------------------------------------------------------------
(* The reference value of a slice in a trial *)

\* a trial has ended and the labels of its shuffle are still on the points
TrialEnded == pc = "observed" /\ ~IsNone(trial)

\* the sum over the points of slice t of the neighbour counts of the points
\* that satisfy Contributes
SumOfReferenceCounts(t, Contributes(_)) ==
    SumSeq([i \in 1..Len(time_slices[t].points) |->
                LET p == time_slices[t].points[i]
                IN  IF Contributes(p)
                    THEN count_eligible_neighbors(points, points[p].neighbors)
                    ELSE 0])

\* C20: in every trial the reference value of a slice is the sum of the
\* unscaled reference counts of its points whose true owner is a case and
\* which are exposed; a point of a control, or an unexposed point, adds 0
\* whatever its temporary label.
C20_SliceReferenceOfTrueCases ==
    TrialEnded =>
        \A t \in DOMAIN time_slices :
            trial.time_slices[t]
                = SumOfReferenceCounts(t, LAMBDA p : points[p].owner_is_case
                                                     /\ points[p].exposed)

\* what holds instead: an exposed point adds its count when its owner is a
\* case or when the trial labels it a case; reference_stat, the value the
\* point's own counter is compared with, is gated by the true owner alone
C20_SliceReferenceAsComputed ==
    TrialEnded =>
        /\ \A t \in DOMAIN time_slices :
            /\ trial.time_slices[t]
                = SumOfReferenceCounts(t, LAMBDA p :
                        points[p].exposed
                        /\ (points[p].owner_is_case \/ points[p].temp_case_status))
            /\ \A i \in DOMAIN time_slices[t].points :
                LET p == time_slices[t].points[i]
                IN  points[p].reference_stat
                        = IF points[p].owner_is_case /\ points[p].exposed
                          THEN count_eligible_neighbors(points, points[p].neighbors)
                                * time_slices[t].delta
                          ELSE 0

\* a trial in which an exposed point of a control, labelled case, added a
\* positive count to the reference value of its slice
C20_ControlPointContributes ==
    /\ TrialEnded
    /\ \E t \in DOMAIN time_slices :
        /\ \E i \in DOMAIN time_slices[t].points :
            LET p == time_slices[t].points[i]
            IN  /\ ~points[p].owner_is_case
                /\ points[p].exposed /\ points[p].temp_case_status
                /\ count_eligible_neighbors(points, points[p].neighbors) > 0
        /\ trial.time_slices[t]
            > SumOfReferenceCounts(t, LAMBDA p : points[p].owner_is_case
                                                 /\ points[p].exposed)

-----------------------------------------------------------------------------
(* The reference values of the points, the entities and the run in a trial *)

\* the reference value of point p of slice t under the labels of the trial
PointReference(t, p) ==
    IF OwnerIsCase(p) /\ points[p].exposed
    THEN Cardinality({i \in DOMAIN points[p].neighbors :
                        /\ points[points[p].neighbors[i]].temp_case_status
                        /\ points[points[p].neighbors[i]].exposed})
            * time_slices[t].delta
    ELSE 0

\* the (slice, position) pairs of the points of the retained slices
SlicePositions ==
    UNION { { <<t, i>> : i \in DOMAIN time_slices[t].points } : t \in DOMAIN time_slices }

RECURSIVE SumOverPositions(_, _)
\* the sum of PointReference over a set of (slice, position) pairs
SumOverPositions(positions, owner) ==
    IF positions = {} THEN 0
    ELSE LET pos == CHOOSE pos \in positions : TRUE
             p == time_slices[pos[1]].points[pos[2]]
         IN  (IF owner = 0 \/ points[p].owner = owner
              THEN PointReference(pos[1], p) ELSE 0)
             + SumOverPositions(positions \ {pos}, owner)

\* C21: in every trial a point's reference_stat is (its cached neighbours
\* that carry the case label and are exposed) x delta when its true owner is
\* a case and it is exposed, and 0 otherwise, whatever its own label; the
\* reference values of the entities and of the run are the sums of these.
C21_PointEntityGlobalReference ==
    TrialEnded =>
        /\ \A pos \in SlicePositions :
            LET p == time_slices[pos[1]].points[pos[2]]
            IN  points[p].reference_stat = PointReference(pos[1], p)
        /\ \A e \in DOMAIN study_entities :
            trial.study_entities[e] = SumOverPositions(SlicePositions, e)
        /\ trial.global_Q = SumOverPositions(SlicePositions, 0)

\* a trial labelled a point of a case control and the point kept a positive
\* reference value; another entity's reference value is 0
C21_Witness ==
    /\ TrialEnded
    /\ \E pos \in SlicePositions :
        LET p == time_slices[pos[1]].points[pos[2]]
        IN  /\ OwnerIsCase(p) /\ ~points[p].temp_case_status
            /\ points[p].reference_stat > 0
    /\ trial.global_Q > 0
    /\ \E e \in DOMAIN study_entities : trial.study_entities[e] = 0

-----------------------------------------------------------------------------
(* The neighbour cache *)

\* point p of slice t shares its coordinates with another point of the slice
IsCoLocated(t, p) ==
    \E i \in DOMAIN time_slices[t].points :
        LET other == time_slices[t].points[i]
        IN  other # p /\ points[other].x = points[p].x /\ points[other].y = points[p].y

\* C22: after the neighbour caching no StudyPoint is in its own neighbour
\* list, whatever the coordinates, co-located points included.
C22_NoPointIsItsOwnNeighbor ==
    PastCaching =>
        \A p \in DOMAIN points : p \notin Range(points[p].neighbors)

\* what holds instead: a point that shares its coordinates with no other
\* point of its slice is not in its own list
C22_NoSeparatePointIsItsOwnNeighbor ==
    PastCaching =>
        \A pos \in SlicePositions :
            LET p == time_slices[pos[1]].points[pos[2]]
            IN  ~IsCoLocated(pos[1], p) => p \notin Range(points[p].neighbors)

\* a point that shares its coordinates with another point was cached as its
\* own nearest neighbour
C22_CoLocatedPointIsItsOwnNeighbor ==
    /\ PastCaching
    /\ \E pos \in SlicePositions :
        LET p == time_slices[pos[1]].points[pos[2]]
        IN  IsCoLocated(pos[1], p) /\ p \in Range(points[p].neighbors)

\* in every cached slice, of the points that share one location at least
\* one is in its own list: they all get the same index array, and only the
\* point reported first loses itself with the dropped first index
C22_EveryCoLocatedGroupHasASelfNeighbor ==
    PastCaching =>
        \A pos \in SlicePositions :
            LET p == time_slices[pos[1]].points[pos[2]]
            IN  IsCoLocated(pos[1], p) =>
                    \E i \in DOMAIN time_slices[pos[1]].points :
                        LET q == time_slices[pos[1]].points[i]
                        IN  /\ points[q].x = points[p].x /\ points[q].y = points[p].y
                            /\ q \in Range(points[q].neighbors)

Min(a, b) == IF a <= b THEN a ELSE b

IsDuplicateFree(list) ==
    \A i, j \in DOMAIN list : list[i] = list[j] => i = j

\* C23: after the run's neighbour caching with k >= 1 every StudyPoint of a
\* slice of n study points has exactly min(k, n - 1) neighbours, none when
\* n <= 1, all distinct StudyPoints of that slice and of no other slice.
C23_StudyPointNeighbors ==
    args.k >= 1 =>
        /\ time_slices # <<>> => raised # "IndexError"
        /\ PastCaching =>
            \A pos \in SlicePositions :
                LET t == pos[1]
                    p == time_slices[t].points[pos[2]]
                    n == Len(time_slices[t].points)
                IN  /\ Len(points[p].neighbors) = Min(args.k, n - 1)
                    /\ IsDuplicateFree(points[p].neighbors)
                    /\ Range(points[p].neighbors) \subseteq Range(time_slices[t].points)
                    /\ \A u \in DOMAIN time_slices :
                        u # t => Range(points[p].neighbors)
                                    \cap Range(time_slices[u].points) = {}

\* a cached run with a slice smaller than k + 1 and a slice of more points
C23_Witness ==
    /\ PastCaching /\ args.k >= 1
    /\ \E t \in DOMAIN time_slices :
        /\ Len(time_slices[t].points) >= 2
        /\ Len(time_slices[t].points) <= args.k
        /\ \A i \in DOMAIN time_slices[t].points :
            Len(points[time_slices[t].points[i]].neighbors)
                = Len(time_slices[t].points) - 1
    /\ \E t \in DOMAIN time_slices : Len(time_slices[t].points) > args.k

\* a cached run with a slice of one point, which has no neighbour
C23_SinglePointSlice ==
    /\ PastCaching /\ args.k >= 1
    /\ \E t \in DOMAIN time_slices :
        /\ Len(time_slices[t].points) = 1
        /\ points[time_slices[t].points[1]].neighbors = <<>>

\* the <<slice, position>> of every focus point of the slices
FocusPositions ==
    { pos \in (DOMAIN time_slices) \X (1..PointsPerEntity * NumEntities) :
            pos[2] \in DOMAIN time_slices[pos[1]].focus_points }

\* focus point f of slice t holds its `count` nearest study points of the
\* slice, nearest first, with their distances
HoldsNearest(f, t, count) ==
    LET near == focus_points[f].neighbors
        far == focus_points[f].neighbor_distances
        DistanceTo(p) == SquaredDistance(points[p].x, points[p].y,
                                         focus_points[f].x, focus_points[f].y)
    IN  /\ Len(near) = count
        /\ Len(far) = count
        /\ IsDuplicateFree(near)
        /\ Range(near) \subseteq Range(time_slices[t].points)
        /\ \A i \in DOMAIN near : far[i] = DistanceTo(near[i])
        /\ \A i, j \in DOMAIN near : i <= j => far[i] <= far[j]
        /\ \A p \in Range(time_slices[t].points) \ Range(near) :
            \A i \in DOMAIN near : far[i] <= DistanceTo(p)

\* C24: after the run's neighbour caching with k >= 1 every FocusPoint of a
\* slice of n > 1 study points holds its min(k, n) nearest StudyPoints of
\* that slice with their distances, the clamp to n - 1 being for StudyPoints
\* only, and never a FocusPoint.
C24_FocusPointNeighbors ==
    (PastCaching /\ args.k >= 1) =>
        \A pos \in FocusPositions :
            LET t == pos[1]
                n == Len(time_slices[t].points)
            IN  n > 1 => HoldsNearest(time_slices[t].focus_points[pos[2]], t,
                                      Min(args.k, n))

\* what the code does: the clamped k is the k of the focus query too
C24_FocusPointNeighborsClamped ==
    (PastCaching /\ args.k >= 1) =>
        \A pos \in FocusPositions :
            LET t == pos[1]
                n == Len(time_slices[t].points)
            IN  n > 1 => HoldsNearest(time_slices[t].focus_points[pos[2]], t,
                                      Min(args.k, n - 1))

\* a focus point of a slice of no more than k points holds one point less
\* than the slice has
C24_FocusPointOfSmallSlice ==
    /\ PastCaching /\ args.k >= 1
    /\ \E pos \in FocusPositions :
        LET t == pos[1]
            n == Len(time_slices[t].points)
        IN  /\ n > 1 /\ n <= args.k
            /\ Len(focus_points[time_slices[t].focus_points[pos[2]]].neighbors) = n - 1

-----------------------------------------------------------------------------
(* The retained time slices                                                *)

\* the dates of the slices _create_time_slices_from_series creates
CandidateDates ==
    extract_unique_dates(study_entities, tables.histories, tables.focus,
                         args.use_exposure)

IsLatestCandidate(date) == \A other \in CandidateDates : other <= date

\* the candidate date that follows `date`
NextCandidate(date) ==
    CHOOSE next \in CandidateDates :
        /\ next > date
        /\ \A other \in CandidateDates : other > date => next <= other

\* C25: after sorting, delta computation and pruning the retained slices are
\* in strictly ascending date order, each has at least one StudyPoint and a
\* delta > 0 that is the number of days from its date to the next candidate
\* slice date, and the slice of the latest candidate date is never retained.
C25_RetainedSlices ==
    PastPruning =>
        /\ \A t, u \in DOMAIN time_slices :
            t < u => time_slices[t].date < time_slices[u].date
        /\ \A t \in DOMAIN time_slices :
            /\ time_slices[t].points # <<>>
            /\ time_slices[t].date \in CandidateDates
            /\ ~IsLatestCandidate(time_slices[t].date)
            /\ ~IsNone(time_slices[t].delta)
            /\ time_slices[t].delta > 0
            /\ time_slices[t].delta
                = DaysBetween(time_slices[t].date, NextCandidate(time_slices[t].date))

\* a pruned run that retains two slices and drops a candidate slice other
\* than the latest one
C25_Witness ==
    /\ pc = "pruned"
    /\ Len(time_slices) >= 2
    /\ Cardinality(CandidateDates) > Len(time_slices) + 1

-----------------------------------------------------------------------------
(* Unit-level harness of _remove_empty_time_slices: slices built by hand   *)
(* as tests/test_analysis_functions.py builds them, with or without a      *)
(* delta, holding the points of one study entity and of one focus entity.  *)

\* time_slice.delta as the tests leave or set it: None, 0 or 1
HandSetDelta(code) == IF code = 0 THEN None ELSE code - 1

\* the points among 1..n that `slice_of` puts in slice t, in creation order
RECURSIVE PointsPutIn(_, _, _)
PointsPutIn(slice_of, n, t) ==
    IF n = 0 THEN <<>>
    ELSE LET before == PointsPutIn(slice_of, n - 1, t)
         IN  IF slice_of[n] = t THEN Append(before, n) ELSE before

PruneInit ==
    /\ pc = "slices_built"
    /\ \E slice_of \in [1..NumEntities -> 1..NumEntities],
          delta \in [1..NumEntities -> 0..2] :
        /\ study_entities = <<[StudyEntity(1, TRUE, None, None, None)
                                  EXCEPT !.points = [p \in 1..NumEntities |-> p]]>>
        /\ points = [p \in 1..NumEntities |-> StudyPoint(0, p, 1, TRUE)]
        /\ focus_entities = <<[FocusEntity(9)
                                  EXCEPT !.points = [f \in 1..PointsPerEntity |-> f]]>>
        /\ focus_points = [f \in 1..PointsPerEntity |-> FocusPoint(0, 0, 1)]
        /\ time_slices =
            [t \in 1..NumEntities |->
                [TimeSlice(20150100 + t)
                    EXCEPT !.points = PointsPutIn(slice_of, NumEntities, t),
                           !.focus_points = IF t <= PointsPerEntity THEN <<t>> ELSE <<>>,
                           !.delta = HandSetDelta(delta[t])]]
    /\ args = None /\ tables = None /\ seed = None /\ rng_seed = None
    /\ global_Q = None /\ global_Qf = None /\ shuffle = 0 /\ trial = None
    /\ correct_alpha = None /\ results = None /\ raised = None
    /\ p_values = <<>> /\ ret = None

UnitRemoveEmptyTimeSlices ==
    /\ pc = "slices_built"
    /\ LET out == remove_empty_time_slices(
                      [ents |-> study_entities, fents |-> focus_entities,
                       pts |-> points, fpts |-> focus_points], time_slices, <<>>)
       IN  /\ study_entities' = out.st.ents
           /\ focus_entities' = out.st.fents
           /\ time_slices' = out.time_slices
    /\ pc' = "remove_empty_time_slices"
    /\ UNCHANGED <<args, tables, seed, rng_seed, points, focus_points, global_Q,
                   global_Qf, shuffle, trial, correct_alpha, results, raised,
                   p_values, ret>>

PruneNext == UnitRemoveEmptyTimeSlices

SpecPrune == PruneInit /\ [][PruneNext]_vars

IsRetained(slices, p) == \E t \in DOMAIN slices : p \in Range(slices[t].points)

IsRetainedFocus(slices, f) ==
    \E t \in DOMAIN slices : f \in Range(slices[t].focus_points)

\* C26: _remove_empty_time_slices leaves in every study and focus entity's
\* point list exactly those of its points that lie in a retained slice, in
\* their original relative order and once each.
C26_PointListsFollowSlices ==
    [][(pc = "deltas" \/ pc = "slices_built") =>
        /\ \A e \in DOMAIN study_entities :
            LET Kept(p) == IsRetained(time_slices', p)
            IN  /\ study_entities'[e].points = SelectSeq(study_entities[e].points, Kept)
                /\ IsDuplicateFree(study_entities'[e].points)
        /\ \A p \in DOMAIN points :
            \A e \in DOMAIN study_entities :
                p \in Range(study_entities'[e].points)
                    <=> (points[p].owner = e /\ IsRetained(time_slices', p))
        /\ ~IsNone(focus_entities) =>
            /\ \A e \in DOMAIN focus_entities :
                LET Kept(f) == IsRetainedFocus(time_slices', f)
                IN  /\ focus_entities'[e].points
                        = SelectSeq(focus_entities[e].points, Kept)
                    /\ IsDuplicateFree(focus_entities'[e].points)
            /\ \A f \in DOMAIN focus_points :
                \A e \in DOMAIN focus_entities :
                    f \in Range(focus_entities'[e].points)
                        <=> (focus_points[f].owner = e
                             /\ IsRetainedFocus(time_slices', f))]_vars

\* a call that has removed a slice with a point of the study entity and a
\* slice with a point of the focus entity, and has kept another point of each
C26_Witness ==
    /\ pc = "remove_empty_time_slices"
    /\ \E e \in DOMAIN study_entities :
        /\ study_entities[e].points # <<>>
        /\ \E p \in DOMAIN points :
            points[p].owner = e /\ p \notin Range(study_entities[e].points)
    /\ \E e \in DOMAIN focus_entities :
        /\ focus_entities[e].points # <<>>
        /\ \E f \in DOMAIN focus_points :
            focus_points[f].owner = e /\ f \notin Range(focus_entities[e].points)

\* in a run the same holds, and only focus points are ever detached: the
\* slice of the latest date, the only one that has no delta, has no study
\* point
C26_RunDetachesFocusPointsOnly ==
    PastPruning =>
        /\ \A p \in DOMAIN points : IsRetained(time_slices, p)
        /\ \A e \in DOMAIN study_entities :
            \A p \in DOMAIN points :
                points[p].owner = e => p \in Range(study_entities[e].points)

-----------------------------------------------------------------------------
(* The population of the slices                                            *)

\* the rows of known entities whose interval [start_date, end_date) holds d
RowsHolding(rows, ents, d) ==
    LET Holds(row) == /\ EntityIndex(ents, row.ID) # 0
                      /\ row.start_date <= d
                      /\ d < row.end_date
    IN  SelectSeq(rows, Holds)

\* the points of the list are those of the rows, one for one and in order
PointsOfRows(list, store, rows, ents) ==
    /\ Len(list) = Len(rows)
    /\ \A i \in DOMAIN list :
        /\ store[list[i]].owner = EntityIndex(ents, rows[i].ID)
        /\ store[list[i]].x = rows[i].x
        /\ store[list[i]].y = rows[i].y

\* C27: when the slices are populated an interval row of a known study or
\* focus entity yields a point in the slice dated d exactly when
\* start_date <= d < end_date; a row with start_date = end_date yields no
\* point, and no row yields a point in a slice dated at or after its end_date.
C27_PointsOfHalfOpenIntervals ==
    pc = "sliced" =>
        \A t \in DOMAIN time_slices :
            /\ PointsOfRows(time_slices[t].points, points,
                            RowsHolding(tables.histories, study_entities,
                                        time_slices[t].date),
                            study_entities)
            /\ IF IsNone(tables.focus) THEN time_slices[t].focus_points = <<>>
               ELSE PointsOfRows(time_slices[t].focus_points, focus_points,
                                 RowsHolding(tables.focus, focus_entities,
                                             time_slices[t].date),
                                 focus_entities)

\* populated slices of a table with a row of equal dates, whose entity has no
\* point, and with a row that ends at the date of a slice that holds a focus
\* point and no point of the row's entity, which has a point in another slice
C27_Witness ==
    /\ pc = "sliced"
    /\ \E i \in DOMAIN tables.histories :
        /\ tables.histories[i].start_date = tables.histories[i].end_date
        /\ study_entities[EntityIndex(study_entities, tables.histories[i].ID)].points = <<>>
    /\ \E i \in DOMAIN tables.histories, t \in DOMAIN time_slices :
        LET e == EntityIndex(study_entities, tables.histories[i].ID)
        IN  /\ time_slices[t].date = tables.histories[i].end_date
            /\ time_slices[t].focus_points # <<>>
            /\ study_entities[e].points # <<>>
            /\ \A j \in DOMAIN time_slices[t].points :
                points[time_slices[t].points[j]].owner # e

-----------------------------------------------------------------------------
(* The frame of a shuffle trial                                            *)

\* the statistic but for its shuffles_passed counter
SameButCounter(old, new) == new = [old EXCEPT !.shuffles_passed = new.shuffles_passed]

\* a step of a trial: _shuffle_flags, or the reference pass with its counters
IsTrialStep ==
    \/ pc = "observed" /\ pc' \in {"shuffled", "error"}
    \/ pc = "shuffled"

TrialFrame ==
    /\ DOMAIN points' = DOMAIN points
    /\ \A p \in DOMAIN points :
        /\ SameButCounter(points[p].point_stat, points'[p].point_stat)
        /\ points'[p] = [points[p] EXCEPT
                            !.temp_case_status = points'[p].temp_case_status,
                            !.reference_stat = points'[p].reference_stat,
                            !.point_stat = points'[p].point_stat]
    /\ DOMAIN focus_points' = DOMAIN focus_points
    /\ \A f \in DOMAIN focus_points :
        /\ SameButCounter(focus_points[f].point_stat, focus_points'[f].point_stat)
        /\ focus_points'[f] = [focus_points[f] EXCEPT
                                  !.reference_stat = focus_points'[f].reference_stat,
                                  !.point_stat = focus_points'[f].point_stat]
    /\ DOMAIN time_slices' = DOMAIN time_slices
    /\ \A t \in DOMAIN time_slices :
        /\ SameButCounter(time_slices[t].Qt, time_slices'[t].Qt)
        /\ time_slices'[t] = [time_slices[t] EXCEPT !.Qt = time_slices'[t].Qt]
    /\ DOMAIN study_entities' = DOMAIN study_entities
    /\ \A e \in DOMAIN study_entities :
        /\ SameButCounter(study_entities[e].entity_stat, study_entities'[e].entity_stat)
        /\ study_entities'[e] = [study_entities[e] EXCEPT
                                    !.entity_stat = study_entities'[e].entity_stat]
    /\ IF IsNone(focus_entities) THEN IsNone(focus_entities')
       ELSE /\ DOMAIN focus_entities' = DOMAIN focus_entities
            /\ \A e \in DOMAIN focus_entities :
                /\ SameButCounter(focus_entities[e].entity_stat,
                                  focus_entities'[e].entity_stat)
                /\ focus_entities'[e] = [focus_entities[e] EXCEPT
                                            !.entity_stat = focus_entities'[e].entity_stat]
    /\ SameButCounter(global_Q, global_Q')
    /\ SameButCounter(global_Qf, global_Qf')

\* C28: a shuffle trial changes only the points' temp_case_status, the
\* reference values and the shuffles_passed counters; the observed
\* statistics, the cached neighbour lists, the exposed flags, the case status
\* of the entities and the points of the entities and of the slices stay as
\* they are.
C28_TrialFrame == [][IsTrialStep => TrialFrame]_vars

\* the end of a trial that has relabelled a point and counted a statistic
C28_Witness ==
    /\ TrialEnded
    /\ \E p \in DOMAIN points :
        /\ points[p].temp_case_status # points[p].owner_is_case
        /\ points[p].neighbors # <<>>
    /\ \E p \in DOMAIN points : points[p].point_stat.shuffles_passed > 0
    /\ global_Q.shuffles_passed > 0

-----------------------------------------------------------------------------
(* The range of the counters and of the p-values                           *)

\* `shuffle` is the number of completed trials
CounterInRange(stat) == stat.shuffles_passed \in 0..shuffle

PValueInRange(stat) ==
    /\ ~IsNone(stat.p_value)
    /\ Leq(Frac(1, args.shuffles + 1), stat.p_value)
    /\ Leq(stat.p_value, Frac(1, 1))

\* C29: after t completed trials the shuffles_passed of every statistic
\* (point, focus point, slice, entity, focus entity, global) lies between 0
\* and t, and every final p-value lies between 1 / (S + 1) and 1.
C29_CountersAndPValuesInRange ==
    /\ pc \in {"observed", "shuffled", "p_values", "corrected", "done"}
            => EveryStatistic(CounterInRange)
    /\ pc \in {"p_values", "corrected", "done"} => EveryStatistic(PValueInRange)

\* final p-values at both ends of the range and inside it: a slice that
\* passed every trial, a study point that passed none and a study entity
\* that passed some
C29_Witness ==
    /\ pc = "p_values"
    /\ \E t \in DOMAIN time_slices :
        /\ time_slices[t].Qt.shuffles_passed = args.shuffles
        /\ Leq(Frac(1, 1), time_slices[t].Qt.p_value)
    /\ \E pos \in SlicePositions :
        LET stat == points[time_slices[pos[1]].points[pos[2]]].point_stat
        IN  /\ stat.shuffles_passed = 0
            /\ Leq(stat.p_value, Frac(1, args.shuffles + 1))
    /\ \E e \in DOMAIN study_entities :
        study_entities[e].entity_stat.shuffles_passed \in 1..(args.shuffles - 1)

-----------------------------------------------------------------------------
(* The end of a shuffle                                                    *)

ShuffleCalled == pc \in {"equal_risk_shuffle", "case_weight_shuffle"}

NumberOfPositiveWeights ==
    Cardinality({e \in DOMAIN study_entities : study_entities[e].case_weight > 0})

\* C30: on every non-empty entity set whose case weights lie in [0, 1],
\* weights of 0 included, the weighted shuffle ends without error after as
\* many draws as there are true cases, each draw taking one entity out of
\* the pool, and the equal-risk shuffle never draws from an empty pool.
C30_ShufflesEndWithoutError ==
    (ShuffleCalled /\ Len(study_entities) > 0) =>
        /\ raised = None
        /\ ExactlyCaseCountLabelled

\* what holds: the equal-risk shuffle always ends without error, and the
\* weighted shuffle does when at least as many entities have a positive
\* weight as there are true cases
C30_EndsWithEnoughPositiveWeights ==
    (/\ ShuffleCalled /\ Len(study_entities) > 0
     /\ \/ pc = "equal_risk_shuffle"
        \/ NumberOfPositiveWeights >= remaining_case_flags(study_entities)) =>
        /\ raised = None
        /\ ExactlyCaseCountLabelled

\* a weighted shuffle that has drawn every entity of positive weight and
\* fails on the next draw
C30_WeightedShuffleFails ==
    /\ pc = "case_weight_shuffle"
    /\ raised = "ZeroDivisionError"
    /\ NumberOfPositiveWeights > 0
    /\ NumberOfPositiveWeights < remaining_case_flags(study_entities)

====
